---- MODULE Spec2Model ----
(***************************************************************************)
(* A model of the AutoMech subtask layer:                                  *)
(*   automech/cli/_subtasks_setup.py      (setup: resolve, lay out, write) *)
(*   automech/cli/_subtasks_run_adhoc.py  (run-adhoc: load and dispatch)   *)
(*                                                                         *)
(* Text is modelled token-wise.  A word is a sequence of pieces (strings); *)
(* digits, "." and a leading tag are pieces of their own, so that the      *)
(* conversions of the code (int(), float(), str.startswith, "{:02d}")      *)
(* are computed on the pieces.  A token of a task line is a record         *)
(* [key, val]: key = "" for a positional word, otherwise the token is      *)
(* key=val.  A line is a sequence of tokens.                               *)
(*                                                                         *)
(* Python values whose type matters are tagged records [t, v].             *)
(***************************************************************************)
EXTENDS Integers, Sequences, FiniteSets, TLC

VARIABLES
    arg,        \* pure-function specifications: the call's arguments
    ret,        \* pure-function specifications: the call's result
    back,       \* pure-function specifications: what is read back from a file
    inp,        \* setup: the input directory and the command line options
    pc,         \* setup: position in main
    loc,        \* setup: the locals of main and of setup_subtask_group
    fs,         \* the filesystem under out_path: directories and files
    hist,       \* setup: the files written, in order, by each run
    layout,     \* run-adhoc: what is read back, and the command line options
    apc,        \* run-adhoc: position in main
    aloc,       \* run-adhoc: the locals of main
    proc,       \* run-adhoc: the external processes started, in order
    aerr        \* run-adhoc: the exception that ended main, or "none"

vars == <<arg, ret, back, inp, pc, loc, fs, hist, layout, apc, aloc, proc, aerr>>

----------------------------------------------------------------------------
(* Bounds of the model *)

MaxIdx == 3         \* species / channel indices are 1..MaxIdx
MaxEntries == 2     \* entries of an index series
MaxSpecies == 2     \* rows of species.csv
MaxTors == 2        \* a species has no torsion or MaxTors torsions

----------------------------------------------------------------------------
(* Python values *)

None == [t |-> "none", v |-> 0]
PyInt(n) == [t |-> "int", v |-> n]
PyStr(s) == [t |-> "str", v |-> s]
PyTuple(s) == [t |-> "tuple", v |-> s]
PyList(s) == [t |-> "list", v |-> s]

(* The outcome of a call: a value, or the exception raised *)
Ok(x) == [err |-> "none", val |-> x]
Raise(e) == [err |-> e, val |-> <<>>]

(* The rest of a computation on the value of a call, unless it raised: the *)
(* outcome r is evaluated once, and an exception passes through            *)
Bind(r, Rest(_)) ==
    CHOOSE out \in {IF x.err # "none" THEN x ELSE Rest(x.val) : x \in {r}} : TRUE

(* The outcomes of a loop: the first exception, or the list of the values *)
Collect(results) ==
    LET bad == {i \in 1..Len(results) : results[i].err # "none"}
    IN  IF bad # {} THEN results[CHOOSE i \in bad : \A j \in bad : i <= j]
        ELSE Ok([i \in 1..Len(results) |-> results[i].val])

Max(a, b) == IF a >= b THEN a ELSE b
Min(a, b) == IF a <= b THEN a ELSE b

RECURSIVE Pow(_, _)
Pow(c, n) == IF n = 0 THEN 1 ELSE c * Pow(c, n - 1)

----------------------------------------------------------------------------
(* Words and tokens *)

Digit == [c \in {"0", "1", "2", "3", "4", "5", "6", "7", "8", "9"} |->
            CASE c = "0" -> 0 [] c = "1" -> 1 [] c = "2" -> 2 [] c = "3" -> 3
              [] c = "4" -> 4 [] c = "5" -> 5 [] c = "6" -> 6 [] c = "7" -> 7
              [] c = "8" -> 8 [] c = "9" -> 9]

IsDigits(w) == Len(w) > 0 /\ \A i \in 1..Len(w) : w[i] \in DOMAIN Digit

RECURSIVE DigitsValue(_)
DigitsValue(w) ==
    IF Len(w) = 0 THEN 0
    ELSE 10 * DigitsValue(SubSeq(w, 1, Len(w) - 1)) + Digit[w[Len(w)]]

(* int(w) of a word: ValueError unless the word is a string of digits *)
int(w) == IF IsDigits(w) THEN Ok(DigitsValue(w)) ELSE Raise("ValueError")

(* int(float(w)): digits, optionally followed by "." and digits *)
DotAt(w) == {i \in 1..Len(w) : w[i] = "."}
int_float(w) ==
    IF DotAt(w) = {} THEN int(w)
    ELSE LET d == CHOOSE i \in DotAt(w) : \A j \in DotAt(w) : i <= j
             whole == SubSeq(w, 1, d - 1)
             frac == SubSeq(w, d + 1, Len(w))
         IN  IF (whole = <<>> \/ IsDigits(whole)) /\ (frac = <<>> \/ IsDigits(frac))
                /\ ~(whole = <<>> /\ frac = <<>>)
             THEN Ok(DigitsValue(whole))
             ELSE Raise("ValueError")

T(w) == [key |-> "", val |-> <<w>>]
F(k, v) == [key |-> k, val |-> v]
IsField(tok) == tok.key # ""
TokText(tok) == IF IsField(tok) THEN <<tok.key, "=">> \o tok.val ELSE tok.val

(* str.startswith on a stripped line, for a tag that is a piece *)
startswith(line, tag) == Len(line) > 0 /\ TokText(line[1])[1] = tag

RECURSIVE unique_everseen(_)
unique_everseen(s) ==
    IF Len(s) = 0 THEN <<>>
    ELSE LET init == unique_everseen(SubSeq(s, 1, Len(s) - 1))
             x == s[Len(s)]
         IN  IF \E i \in 1..Len(init) : init[i] = x THEN init ELSE Append(init, x)

RECURSIVE Flatten(_)
Flatten(ss) == IF Len(ss) = 0 THEN <<>> ELSE Head(ss) \o Flatten(Tail(ss))

----------------------------------------------------------------------------
(* Program constants *)

SAMP_TASKS == {<<"conf_samp">>}
DEFAULT_GROUPS ==
    << <<"els", "spc">>, <<"els", "pes">>, <<"thermo", "spc">>, <<"kin", "None">> >>
all_key == PyStr("all")
param_a == 12
param_b == 1
param_c == 3
DefaultCnfRange == <<"n", "1", "0", "0">>

----------------------------------------------------------------------------
(* Parsing a task line *)

parse_task_name(task_line) ==
    IF Len(task_line) = 0 THEN Raise("IndexError")
    ELSE LET first == TokText(task_line[1])
         IN  IF first \in {<<"spc">>, <<"ts">>}
             THEN IF Len(task_line) < 2 THEN Raise("IndexError")
                  ELSE Ok(TokText(task_line[2]))
             ELSE Ok(first)

(* The grammar skips to the first key=val token and takes the run of       *)
(* key=val tokens that starts there; with no such token it does not match. *)
RECURSIVE FieldRunEnd(_, _)
FieldRunEnd(task_line, i) ==
    IF i + 1 <= Len(task_line) /\ IsField(task_line[i + 1])
    THEN FieldRunEnd(task_line, i + 1)
    ELSE i

parse_task_fields(task_line) ==
    LET at == {i \in 1..Len(task_line) : IsField(task_line[i])}
    IN  IF at = {} THEN Raise("ParseException")
        ELSE LET i == CHOOSE k \in at : \A j \in at : k <= j
                 j == FieldRunEnd(task_line, i)
                 keys == {task_line[k].key : k \in i..j}
                 last(key) == CHOOSE k \in i..j :
                                 /\ task_line[k].key = key
                                 /\ \A m \in i..j : task_line[m].key = key => m <= k
             IN  Ok([key \in keys |-> task_line[last(key)].val])

(* A lookup that falls back on a level of the table *)
TheoryValueOfSomeLevel(theory_dct, runlvl, name) ==
    LET level == IF runlvl \in DOMAIN theory_dct THEN runlvl
                 ELSE CHOOSE l \in DOMAIN theory_dct : TRUE
    IN  int_float(theory_dct[level][name])

(* theory_dct.get(runlvl).get(name), then int(float(...)) *)
TheoryValue(theory_dct, runlvl, name) ==
    IF runlvl \notin DOMAIN theory_dct THEN Raise("AttributeError")
    ELSE IF name \notin DOMAIN theory_dct[runlvl] THEN Raise("TypeError")
    ELSE int_float(theory_dct[runlvl][name])

parse_task_memory(task_line, file_dct) ==
    Bind(parse_task_fields(task_line), LAMBDA field_dct :
        IF "runlvl" \in DOMAIN field_dct
        THEN Bind(TheoryValue(file_dct["theory.dat"], field_dct["runlvl"], "mem"),
                  LAMBDA mem : Ok(PyInt(mem)))
        ELSE Ok(None))

(* nprocs with the field of the line taken before the level of theory.dat *)
NprocsOfLineFirst(task_line, file_dct) ==
    Bind(parse_task_fields(task_line), LAMBDA field_dct :
        IF "nprocs" \in DOMAIN field_dct
        THEN Bind(int_float(field_dct["nprocs"]), LAMBDA own : Ok(PyInt(own)))
        ELSE IF "runlvl" \in DOMAIN field_dct
        THEN Bind(TheoryValue(file_dct["theory.dat"], field_dct["runlvl"], "nprocs"),
                  LAMBDA n : Ok(PyInt(n)))
        ELSE Ok(None))

parse_task_nprocs(task_line, file_dct) ==
    Bind(parse_task_fields(task_line), LAMBDA field_dct :
        Bind(IF "nprocs" \in DOMAIN field_dct THEN int_float(field_dct["nprocs"]) ELSE Ok(0),
             LAMBDA own :
                IF "runlvl" \in DOMAIN field_dct
                THEN Bind(TheoryValue(file_dct["theory.dat"], field_dct["runlvl"], "nprocs"),
                          LAMBDA n : Ok(PyInt(n)))
                ELSE IF "nprocs" \in DOMAIN field_dct THEN Ok(PyInt(own))
                ELSE Ok(None)))

(* A sample count without the cap, and one without the case of no torsion *)
SampleCountUncapped(chi, a, b, c, d) ==
    IF chi = 0 THEN 1 ELSE a + b * Pow(c, chi)

SampleCountOfFormula(chi, a, b, c, d) == Min(a + b * Pow(c, chi), d)

(* The torsion count comes from automol; a row of species.csv carries it. *)
sample_count_from_inchi(chi, a, b, c, d) ==
    LET ntors == chi
    IN  IF ntors = 0 THEN 1 ELSE Min(a + b * Pow(c, ntors), d)

WorkersOneLess(n) == n - 1

(* max(n - 1, 1) for a sample count n *)
nworkers_of(n) == Max(n - 1, 1)

parse_subtasks_nworkers(task_line, file_dct, nsub) ==
    IF ~startswith(task_line, "spc") THEN Ok([i \in 1..nsub |-> 1])
    ELSE
    Bind(parse_task_name(task_line), LAMBDA task_name :
        Bind(parse_task_fields(task_line), LAMBDA field_dct :
            LET has == "cnf_range" \in DOMAIN field_dct
                cnf == IF has THEN field_dct["cnf_range"] ELSE <<>>
            IN  IF task_name \in SAMP_TASKS \/ (Len(cnf) > 0 /\ cnf[1] = "n")
                THEN Bind(int(Tail(IF has THEN cnf ELSE DefaultCnfRange)), LAMBDA nmax :
                        Ok([i \in 1..Len(file_dct["species.csv"]) |->
                                nworkers_of(sample_count_from_inchi(
                                            file_dct["species.csv"][i].inchi, param_a,
                                            param_b, param_c, nmax))]))
                ELSE Ok([i \in 1..nsub |-> 1])))

----------------------------------------------------------------------------
(* Index series, subtask keys, task lines *)

(* An entry is a bare integer (range = FALSE, lo = hi) or lo-hi. *)
Int1(n) == [range |-> FALSE, lo |-> n, hi |-> n]
Range(a, b) == [range |-> TRUE, lo |-> a, hi |-> b]
ExpandEntry(e) == [i \in 1..(IF e.hi >= e.lo THEN e.hi - e.lo + 1 ELSE 0) |-> e.lo + i - 1]

(* The entries of a text are separated by commas; an entry that follows a  *)
(* line break instead is marked.  The delimiter of the grammar matches a   *)
(* comma and the end of the text but no line break between two entries, so *)
(* the list that is parsed ends before the first entry after a line break. *)
OnNewLine(e) == [range |-> e.range, lo |-> e.lo, hi |-> e.hi, nl |-> TRUE]
StartsLine(e) == "nl" \in DOMAIN e

DelimitedList(entries) ==
    LET breaks == {i \in 2..Len(entries) : StartsLine(entries[i])}
    IN  IF breaks = {} THEN entries
        ELSE SubSeq(entries, 1, (CHOOSE i \in breaks : \A j \in breaks : i <= j) - 1)

parse_index_series(entries) ==
    IF Len(entries) = 0 THEN Raise("ParseException")
    ELSE Ok(unique_everseen(Flatten([i \in 1..Len(DelimitedList(entries)) |->
                                        ExpandEntry(DelimitedList(entries)[i])])))

(* The keys of the pes block with the pairs of every line kept as they are *)
SubtaskKeysOfEveryLine(run_dct, subtask_type) ==
    IF subtask_type = "None" THEN Ok(<<all_key>>)
    ELSE IF subtask_type = "spc"
    THEN Bind(parse_index_series(run_dct.spc), LAMBDA idxs :
            Ok([i \in 1..Len(idxs) |-> PyInt(idxs[i])]))
    ELSE IF Len(run_dct.pes) = 0 THEN Raise("ParseException")
    ELSE Bind(Collect([i \in 1..Len(run_dct.pes) |->
                        parse_index_series(run_dct.pes[i].channels)]),
              LAMBDA chans :
                Ok(Flatten(
                    [i \in 1..Len(run_dct.pes) |->
                        [j \in 1..Len(chans[i]) |->
                            PyTuple(<<PyInt(run_dct.pes[i].pes), PyInt(chans[i][j])>>)]])))

subtask_keys_from_run_dict(run_dct, subtask_type) ==
    IF subtask_type = "None" THEN Ok(<<all_key>>)
    ELSE IF subtask_type = "spc"
    THEN Bind(parse_index_series(run_dct.spc), LAMBDA idxs :
            Ok([i \in 1..Len(idxs) |-> PyInt(idxs[i])]))
    ELSE IF Len(run_dct.pes) = 0 THEN Raise("ParseException")
    ELSE Bind(Collect([i \in 1..Len(run_dct.pes) |->
                        parse_index_series(run_dct.pes[i].channels)]),
              LAMBDA chans :
                Ok(unique_everseen(Flatten(
                    [i \in 1..Len(run_dct.pes) |->
                        [j \in 1..Len(chans[i]) |->
                            PyTuple(<<PyInt(run_dct.pes[i].pes), PyInt(chans[i][j])>>)]]))))

(* The lines of the block, with no filter for the els block *)
TaskLinesUnfiltered(run_dct, task_type, subtask_type) == Ok(run_dct[task_type])

task_lines_from_run_dict(run_dct, task_type, subtask_type) ==
    LET lines == run_dct[task_type]
    IN  IF task_type = "els"
        THEN IF subtask_type \notin {"spc", "pes"} THEN Raise("AssertionError")
             ELSE LET start_key == IF subtask_type = "pes" THEN "ts" ELSE "spc"
                  IN  Ok(SelectSeq(lines, LAMBDA line : startswith(line, start_key)))
        ELSE Ok(lines)

(* One Task of the list comprehension of determine_task_list *)
TaskOfLine(task_line, file_dct, keys) ==
    Bind(parse_task_name(task_line), LAMBDA name :
    Bind(parse_task_memory(task_line, file_dct), LAMBDA mem :
    Bind(parse_task_nprocs(task_line, file_dct), LAMBDA nprocs :
    Bind(parse_subtasks_nworkers(task_line, file_dct, Len(keys)), LAMBDA nworkers :
        Ok([name |-> name, line |-> task_line, mem |-> mem, nprocs |-> nprocs,
            subtask_keys |-> keys, subtask_nworkers |-> nworkers])))))

determine_task_list(run_dct, file_dct, task_type, key_type) ==
    Bind(subtask_keys_from_run_dict(run_dct, key_type), LAMBDA keys :
    Bind(task_lines_from_run_dict(run_dct, task_type, key_type), LAMBDA lines :
        Collect([i \in 1..Len(lines) |-> TaskOfLine(lines[i], file_dct, keys)])))

----------------------------------------------------------------------------
(* Task read/write.  yaml.safe_dump represents a value as a node (a tuple  *)
(* and a list both as a sequence node); yaml.safe_load constructs a value  *)
(* from a node (a list from a sequence node).                              *)

RECURSIVE yaml_represent(_)
yaml_represent(x) ==
    CASE x.t = "none" -> [t |-> "null", v |-> 0]
      [] x.t = "int" -> [t |-> "int", v |-> x.v]
      [] x.t = "str" -> [t |-> "str", v |-> x.v]
      [] x.t \in {"tuple", "list"} ->
            [t |-> "seq", v |-> [i \in 1..Len(x.v) |-> yaml_represent(x.v[i])]]

RECURSIVE yaml_construct(_)
yaml_construct(n) ==
    CASE n.t = "null" -> None
      [] n.t = "int" -> PyInt(n.v)
      [] n.t = "str" -> PyStr(n.v)
      [] n.t = "seq" -> PyList([i \in 1..Len(n.v) |-> yaml_construct(n.v[i])])

(* dataclasses.asdict, then the mapping node of one Task *)
TaskNode(task) ==
    [name |-> yaml_represent(PyStr(task.name)),
     line |-> yaml_represent(PyStr(task.line)),
     mem |-> yaml_represent(task.mem),
     nprocs |-> yaml_represent(task.nprocs),
     subtask_keys |-> yaml_represent(PyList(task.subtask_keys)),
     subtask_nworkers |-> yaml_represent(
        PyList([i \in 1..Len(task.subtask_nworkers) |-> PyInt(task.subtask_nworkers[i])]))]

(* The Task built from the fields of one constructed mapping *)
TaskOfNode(n) ==
    [name |-> yaml_construct(n.name).v,
     line |-> yaml_construct(n.line).v,
     mem |-> yaml_construct(n.mem),
     nprocs |-> yaml_construct(n.nprocs),
     subtask_keys |-> yaml_construct(n.subtask_keys).v,
     subtask_nworkers |->
        LET l == yaml_construct(n.subtask_nworkers).v
        IN  [i \in 1..Len(l) |-> l[i].v]]

(* Path.write_text on the files of a filesystem [dirs, files] *)
WriteText(files, path, text) ==
    [p \in DOMAIN files \cup {path} |-> IF p = path THEN text ELSE files[p]]

write_task_list(files, yaml_tasks, path) ==
    WriteText(files, path, [i \in 1..Len(yaml_tasks) |-> TaskNode(yaml_tasks[i])])

read_task_list(files, path) ==
    IF path \notin DOMAIN files THEN Raise("FileNotFoundError")
    ELSE Ok([i \in 1..Len(files[path]) |-> TaskOfNode(files[path][i])])

----------------------------------------------------------------------------
(* Parsing and forming run.dat *)

BlockKeys == <<"input", "spc", "pes", "els", "thermo", "kin">>

(* run.dat as text is the sequence of its sections in file order; a section *)
(* [key, block] stands for the line `key`, the lines of the block and the   *)
(* line `end key`.  The lines of an els, thermo or kin block are task       *)
(* lines; a task line may end with a comment.                               *)
TaskBlocks == {"els", "thermo", "kin"}
Comment(w) == [key |-> "#", val |-> <<w>>]

(* re.sub(COMMENT_REGEX, "", inp): a line loses what follows its first "#" *)
StripComment(line) ==
    LET at == {t \in 1..Len(line) : line[t].key = "#"}
    IN  IF at = {} THEN line
        ELSE SubSeq(line, 1, (CHOOSE t \in at : \A u \in at : t <= u) - 1)

without_comments(text) ==
    [i \in 1..Len(text) |->
        IF text[i].key \in TaskBlocks
        THEN [text[i] EXCEPT !.block = [l \in 1..Len(text[i].block) |->
                                            StripComment(text[i].block[l])]]
        ELSE text[i]]

(* pp.Keyword(keyword) matches a word that is the keyword: the line `key`  *)
(* of a section, and as well a word of a task line.  (The fields, the      *)
(* paths and the indices of the model hold no keyword.)                    *)
KeywordLines(section, keyword) ==
    IF section.key \notin TaskBlocks THEN {}
    ELSE {l \in 1..Len(section.block) :
            \E t \in 1..Len(section.block[l]) : section.block[l][t] = T(keyword)}

KeywordSections(text, keyword) ==
    {i \in 1..Len(text) : text[i].key = keyword \/ KeywordLines(text[i], keyword) # {}}

(* The text that block_expression(keyword) takes as content: it starts     *)
(* after the first word that is the keyword (word `word` of line `line` of *)
(* section `section`, line 0 being the line `key`) and stops before the    *)
(* first `end keyword`, which is in section `stop`.                        *)
Least(S) == CHOOSE i \in S : \A j \in S : i <= j

KeywordAt(text, keyword, i) ==
    LET l == IF text[i].key = keyword THEN 0 ELSE Least(KeywordLines(text[i], keyword))
        t == IF l = 0 THEN 1
             ELSE Least({u \in 1..Len(text[i].block[l]) : text[i].block[l][u] = T(keyword)})
        ends == {j \in i..Len(text) : text[j].key = keyword}
    IN  IF ends = {} THEN Raise("ParseException")
        ELSE Ok([section |-> i, line |-> l, word |-> t, stop |-> Least(ends)])

block_expression(text, keyword) ==
    CHOOSE at \in {IF hits = {} THEN Raise("ParseException")
                   ELSE KeywordAt(text, keyword, Least(hits)) :
                        hits \in {KeywordSections(text, keyword)}} : TRUE

(* The content is the block of a section when it starts after the line     *)
(* `key` of the section; otherwise it is the rest of a task line, the rest *)
(* of the section of that line and the text up to `end keyword`.           *)
BlockContent(text, at) ==
    IF at.line = 0 THEN text[at.section].block
    ELSE [rest |-> SubSeq(text[at.section].block[at.line], at.word + 1,
                          Len(text[at.section].block[at.line])),
          lines |-> SubSeq(text[at.section].block, at.line + 1,
                           Len(text[at.section].block)),
          closed |-> text[at.section].key,
          sections |-> SubSeq(text, at.section + 1, at.stop - 1),
          opened |-> text[at.stop]]

(* _parse_block of parse_run_dat *)
parse_block(run_dat, keyword) ==
    Bind(block_expression(run_dat, keyword), LAMBDA at : Ok(BlockContent(run_dat, at)))

(* Every one of the six blocks must be found in run.dat *)
ParseBlocks(text) ==
    Bind(Collect([i \in 1..Len(BlockKeys) |-> parse_block(text, BlockKeys[i])]),
         LAMBDA blocks :
            Ok([k \in {BlockKeys[i] : i \in 1..Len(BlockKeys)} |->
                    blocks[CHOOSE i \in 1..Len(BlockKeys) : BlockKeys[i] = k]]))

parse_run_dat(run_dat) ==
    CHOOSE run_dct \in {ParseBlocks(text) : text \in {without_comments(run_dat)}} : TRUE

form_run_dat(run_dct) ==
    LET present == SelectSeq(BlockKeys, LAMBDA k : k \in DOMAIN run_dct)
    IN  [i \in 1..Len(present) |-> [key |-> present[i], block |-> run_dct[present[i]]]]

----------------------------------------------------------------------------
(* Inputs of the model: the contents of inp/ *)

IndexEntries ==
    {Int1(n) : n \in 1..MaxIdx}
        \cup {Range(a, a + 1) : a \in 1..(MaxIdx - 1)}

IndexSeries ==
    UNION {[1..n -> IndexEntries] : n \in 1..MaxEntries}

SpeciesCsvs ==
    UNION {[1..n -> [inchi : {0, MaxTors}]] : n \in 1..MaxSpecies}

TheoryDat ==
    [w \in {<<"lvl0">>, <<"lvl1">>} |->
        IF w = <<"lvl1">> THEN [mem |-> <<"4", ".", "0">>, nprocs |-> <<"8">>]
        ELSE [mem |-> <<"2", ".", "5">>, nprocs |-> <<"1", "6", ".">>]]

lvl1 == F("runlvl", <<"lvl1">>)
spc_init == <<T("spc"), T("init_geom"), lvl1>>
spc_samp == <<T("spc"), T("conf_samp"), lvl1, F("cnf_range", <<"n", "5">>)>>
spc_samp_default == <<T("spc"), T("conf_samp"), lvl1>>
spc_opt == <<T("spc"), T("conf_opt"), F("cnf_range", <<"n", "1">>), F("nprocs", <<"2">>)>>
spc_energy == <<T("spc"), T("conf_energy"), F("cnf_range", <<"r", "2">>), lvl1>>
spc_both == <<T("spc"), T("conf_opt"), F("nprocs", <<"2">>), F("runlvl", <<"lvl0">>)>>
spc_samp0 == <<T("spc"), T("conf_samp"), lvl1, F("cnf_range", <<"n", "0">>)>>
ts_find == <<T("ts"), T("find_ts"), lvl1>>
ts_samp == <<T("ts"), T("conf_samp"), lvl1, F("cnf_range", <<"n", "5">>)>>
ts_bare == <<T("ts"), T("find_ts")>>
write_mess == <<T("write_mess"), F("kin_model", <<"global">>)>>
blank == <<>>
run_mess == <<T("run_mess"), F("nprocs", <<"1", "0">>)>>
run_fits == <<T("run_fits"), F("kin_model", <<"global">>)>>

ElsBlocks ==
    { <<spc_init, spc_samp, ts_find>>,
      <<spc_samp_default, spc_samp0, ts_samp, ts_find>>,
      <<spc_opt, spc_both, spc_init, ts_find>>,
      <<spc_energy, ts_find, ts_bare>> }

PesBlockOf(series) ==
    <<[pes |-> 1, channels |-> series], [pes |-> 2, channels |-> <<series[1]>>]>>

RunDcts ==
    {[input |-> [run_prefix |-> <<"/", "run">>, save_prefix |-> <<"/", "save">>],
      spc |-> s, pes |-> PesBlockOf(s), els |-> e,
      thermo |-> <<write_mess, run_mess>>,
      kin |-> <<write_mess, run_mess, run_fits>>] : s \in IndexSeries, e \in ElsBlocks}

FileDcts ==
    {[n \in {"theory.dat", "species.csv"} |->
        IF n = "theory.dat" THEN TheoryDat ELSE c] : c \in SpeciesCsvs}

Groups == {DEFAULT_GROUPS[i] : i \in 1..Len(DEFAULT_GROUPS)}

----------------------------------------------------------------------------
(* Values of the variables a specification does not use *)

Unused == <<>>
Pending == [err |-> "pending", val |-> <<>>]

EmptyFs == [dirs |-> {<<>>}, files |-> <<>>]
SetupUnused == inp = Unused /\ pc = "unused" /\ loc = Unused /\ hist = Unused
AdhocUnused == layout = Unused /\ apc = "unused" /\ aloc = Unused /\ proc = Unused /\ aerr = "none"
PureUnused == arg = Unused /\ ret = Pending /\ back = Pending

setup_vars == <<inp, pc, loc, hist>>
adhoc_vars == <<layout, apc, aloc, proc, aerr>>
pure_vars == <<arg, ret, back>>

----------------------------------------------------------------------------
(* SpecResolve: determine_task_list on every input of the bounds *)

(* A run.dat whose task blocks have a blank line or a line that is only a  *)
(* comment between two task lines, and the dictionary parsed from it       *)
RunDatWithBlanks ==
    [i \in 1..Len(BlockKeys) |->
        [key |-> BlockKeys[i],
         block |-> CASE BlockKeys[i] = "input" ->
                            [run_prefix |-> <<"/", "run">>, save_prefix |-> <<"/", "save">>]
                     [] BlockKeys[i] = "spc" -> <<Int1(2), Int1(1)>>
                     [] BlockKeys[i] = "pes" -> PesBlockOf(<<Int1(2), Int1(1)>>)
                     [] BlockKeys[i] = "els" ->
                            <<spc_init, blank, <<Comment("transition states")>>, ts_find>>
                     [] BlockKeys[i] = "thermo" ->
                            <<write_mess, <<Comment("partition functions")>>, run_mess>>
                     [] BlockKeys[i] = "kin" -> <<write_mess, blank, run_fits>>]]

ResolveRunDcts == RunDcts \cup {parse_run_dat(RunDatWithBlanks).val}

TaskFile == <<"tasks.yaml">>

InitResolve ==
    /\ arg \in [run_dct : ResolveRunDcts, file_dct : FileDcts, group : Groups]
    /\ ret = Pending
    /\ back = Pending
    /\ fs = EmptyFs
    /\ SetupUnused /\ AdhocUnused

Resolve ==
    /\ ret = Pending
    /\ ret' = determine_task_list(arg.run_dct, arg.file_dct, arg.group[1], arg.group[2])
    /\ UNCHANGED <<arg, back, fs, setup_vars, adhoc_vars>>

WriteTaskList ==
    /\ ret.err = "none"
    /\ TaskFile \notin DOMAIN fs.files
    /\ fs' = [fs EXCEPT !.files = write_task_list(fs.files, ret.val, TaskFile)]
    /\ UNCHANGED <<arg, ret, back, setup_vars, adhoc_vars>>

ReadTaskList ==
    /\ TaskFile \in DOMAIN fs.files
    /\ back = Pending
    /\ back' = read_task_list(fs.files, TaskFile)
    /\ UNCHANGED <<arg, ret, fs, setup_vars, adhoc_vars>>

NextResolve == Resolve \/ WriteTaskList \/ ReadTaskList

SpecResolve == InitResolve /\ [][NextResolve]_vars

Resolved == ret.err = "none" /\ "group" \in DOMAIN arg

(* Whether the resolver is to treat the line as a sampling task, and its cap *)
IsSampling(task) ==
    LET f == parse_task_fields(task.line).val
    IN  \/ task.name \in SAMP_TASKS
        \/ ("cnf_range" \in DOMAIN f /\ f["cnf_range"][1] = "n")

CapOf(task) ==
    LET f == parse_task_fields(task.line).val
    IN  int(Tail(IF "cnf_range" \in DOMAIN f THEN f["cnf_range"] ELSE DefaultCnfRange)).val

(* C1: every Task of determine_task_list has as many worker counts as      *)
(* subtask keys, for every group, spc block and species.csv.               *)
C1_KeysAndWorkersPaired ==
    Resolved =>
        \A i \in 1..Len(ret.val) :
            Len(ret.val[i].subtask_keys) = Len(ret.val[i].subtask_nworkers)

(* C2: for a sampling task of a species-keyed group, the worker count at   *)
(* position i is max(sample_count(s) - 1, 1) for the species s that the    *)
(* subtask key at position i names (row s of species.csv).                 *)
C2_WorkersBelongToKeySpecies ==
    (Resolved /\ arg.group = <<"els", "spc">>) =>
        \A i \in 1..Len(ret.val) :
            LET task == ret.val[i]
                csv == arg.file_dct["species.csv"]
            IN  IsSampling(task) =>
                    \A k \in 1..Min(Len(task.subtask_keys), Len(task.subtask_nworkers)) :
                        task.subtask_keys[k].v \in 1..Len(csv) =>
                            task.subtask_nworkers[k] =
                                 Max(sample_count_from_inchi(
                                        csv[task.subtask_keys[k].v].inchi,
                                        param_a, param_b, param_c, CapOf(task)) - 1, 1)

(* The sample count from which entry k of the worker counts of a task is  *)
(* derived: that of row k of species.csv, under the cap of the line        *)
DerivedFromCount(task) == startswith(task.line, "spc") /\ IsSampling(task)

CountOf(task, k) ==
    sample_count_from_inchi(arg.file_dct["species.csv"][k].inchi,
                            param_a, param_b, param_c, CapOf(task))

(* C15: every worker count of every Task is at least 1, whatever the task  *)
(* line and the cap of cnf_range are (0 and 1 included); a count derived   *)
(* from a sample count n is n - 1, or 1 when that is less than 1.          *)
C15_WorkersAtLeastOne ==
    Resolved =>
        \A i \in 1..Len(ret.val) :
            LET task == ret.val[i]
            IN  /\ \A k \in 1..Len(task.subtask_nworkers) :
                        task.subtask_nworkers[k] \in Nat \ {0}
                /\ DerivedFromCount(task) =>
                        \A k \in 1..Len(task.subtask_nworkers) :
                            task.subtask_nworkers[k] =
                                IF CountOf(task, k) >= 2 THEN CountOf(task, k) - 1 ELSE 1

C15_Witness ==
    /\ Resolved
    /\ \E i \in 1..Len(ret.val) :
            /\ DerivedFromCount(ret.val[i])
            /\ CapOf(ret.val[i]) = 0
            /\ \E k \in 1..Len(ret.val[i].subtask_nworkers) :
                    CountOf(ret.val[i], k) = 0 /\ ret.val[i].subtask_nworkers[k] = 1
    /\ \E i \in 1..Len(ret.val) :
            \E k \in 1..Len(ret.val[i].subtask_nworkers) :
                ret.val[i].subtask_nworkers[k] > 1

(* The worker counts derived from the sample counts of species.csv, and   *)
(* the uniform worker counts                                               *)
Replicated(task) ==
    [k \in 1..Len(arg.file_dct["species.csv"]) |->
        IF CountOf(task, k) >= 2 THEN CountOf(task, k) - 1 ELSE 1]

Uniform(task) == [k \in 1..Len(task.subtask_keys) |-> 1]

(* C18: a task line has the worker counts derived from the sample counts   *)
(* exactly when its task name is conf_samp or its cnf_range starts with    *)
(* `n`, whether the line starts with spc or with ts and whatever its       *)
(* block; every other line has the worker count 1 for each subtask key.    *)
C18_ReplicatedExactlyWhenSampling ==
    Resolved =>
        \A i \in 1..Len(ret.val) :
            /\ IsSampling(ret.val[i]) => ret.val[i].subtask_nworkers = Replicated(ret.val[i])
            /\ ~IsSampling(ret.val[i]) => ret.val[i].subtask_nworkers = Uniform(ret.val[i])

(* The same for the lines that start with spc *)
C18_SpeciesLines ==
    Resolved =>
        \A i \in 1..Len(ret.val) :
            startswith(ret.val[i].line, "spc") =>
                /\ IsSampling(ret.val[i]) =>
                        ret.val[i].subtask_nworkers = Replicated(ret.val[i])
                /\ ~IsSampling(ret.val[i]) =>
                        ret.val[i].subtask_nworkers = Uniform(ret.val[i])

(* The fields of the line of a task, and a value of theory.dat as an int *)
FieldsOf(task) == parse_task_fields(task.line).val
LevelInt(task, name) ==
    PyInt(int_float(arg.file_dct["theory.dat"][FieldsOf(task)["runlvl"]][name]).val)

(* C19: with runlvl=<level> on the line and the level in theory.dat, mem   *)
(* and nprocs of the Task are the mem and nprocs of the level, through     *)
(* float to int, also when the line has a field nprocs=; without runlvl a  *)
(* field nprocs= gives nprocs, and mem is null.                            *)
C19_LevelBeforeField ==
    Resolved =>
        \A i \in 1..Len(ret.val) : \A f \in {FieldsOf(ret.val[i])} :
            /\ ("runlvl" \in DOMAIN f /\ f["runlvl"] \in DOMAIN arg.file_dct["theory.dat"]) =>
                    /\ ret.val[i].mem = LevelInt(ret.val[i], "mem")
                    /\ ret.val[i].nprocs = LevelInt(ret.val[i], "nprocs")
            /\ ("runlvl" \notin DOMAIN f /\ "nprocs" \in DOMAIN f) =>
                    /\ ret.val[i].nprocs = PyInt(int_float(f["nprocs"]).val)
                    /\ ret.val[i].mem = None

C19_Witness ==
    /\ Resolved
    /\ \E i \in 1..Len(ret.val) :
            /\ ret.val[i].line = spc_both
            /\ ret.val[i].mem = PyInt(2)
            /\ ret.val[i].nprocs = PyInt(16)
    /\ \E i \in 1..Len(ret.val) :
            /\ ret.val[i].line = spc_opt
            /\ ret.val[i].mem = None
            /\ ret.val[i].nprocs = PyInt(2)

(* The task lines of the group that is resolved *)
ArgLines == task_lines_from_run_dict(arg.run_dct, arg.group[1], arg.group[2]).val

HasField(line, key) == \E k \in 1..Len(line) : line[k].key = key

(* C20: a task line with neither runlvl= nor nprocs=, with other fields or *)
(* with no field at all, gives a Task with mem and nprocs null, and the    *)
(* resolver does not fail.                                                 *)
C20_NullWithoutFields ==
    (ret # Pending /\ "group" \in DOMAIN arg) =>
        \A lines \in {ArgLines} : \A i \in 1..Len(lines) :
            (~HasField(lines[i], "runlvl") /\ ~HasField(lines[i], "nprocs")) =>
                /\ ret.err = "none"
                /\ ret.val[i].mem = None
                /\ ret.val[i].nprocs = None

(* The same for the lines that have a field *)
C20_NullWithOtherFields ==
    (ret # Pending /\ "group" \in DOMAIN arg) =>
        \A lines \in {ArgLines} : \A i \in 1..Len(lines) :
            (~HasField(lines[i], "runlvl") /\ ~HasField(lines[i], "nprocs")
                /\ \E k \in 1..Len(lines[i]) : IsField(lines[i][k])
                /\ ret.err = "none") =>
                    ret.val[i].mem = None /\ ret.val[i].nprocs = None

(* The block of the group that is resolved has a blank line *)
HasBlankLine ==
    \E l \in 1..Len(arg.run_dct[arg.group[1]]) : arg.run_dct[arg.group[1]][l] = blank

(* C30: a blank line of a task block, a line that held only a comment      *)
(* among them, gives no Task and does not make the resolver fail: for the  *)
(* els, the thermo and the kin block there is one Task for each candidate  *)
(* line that is not blank, in the order of the lines.                      *)
C30_BlankLinesSkipped ==
    (ret # Pending /\ "group" \in DOMAIN arg /\ HasBlankLine) =>
        \A lines \in {SelectSeq(ArgLines, LAMBDA line : line # blank)} :
            /\ ret.err = "none"
            /\ [i \in 1..Len(ret.val) |-> ret.val[i].line] = lines

(* The same for the els block *)
C30_BlankLinesOfEls ==
    arg.group[1] = "els" => C30_BlankLinesSkipped

(* C3: read_task_list after write_task_list on the same path returns the   *)
(* Tasks written, field for field, for every Task the resolver produces.   *)
C3_TaskListRoundTrip ==
    (back.err = "none" /\ "group" \in DOMAIN arg) => back.val = ret.val

----------------------------------------------------------------------------
(* Setup: paths, directories and the files written *)

SUBTASK_DIR == << <<"subtasks">> >>
INFO_FILE == <<"info", ".yaml">>
WorkPath == <<"/", "home/job">>         \* os.getcwd() of the setup command
InputFileOrder == <<"run.dat", "theory.dat", "models.dat", "mechanism.dat", "species.csv">>

DigitChar == <<"0", "1", "2", "3", "4", "5", "6", "7", "8", "9">>

(* str(n) of a natural number, digit by digit *)
RECURSIVE str_int(_)
str_int(n) ==
    IF n < 10 THEN <<DigitChar[n + 1]>>
    ELSE str_int(n \div 10) \o <<DigitChar[(n % 10) + 1]>>

(* "{:02d}".format(n) *)
id_str_(n) == IF n < 10 THEN <<"0">> \o str_int(n) ELSE str_int(n)

(* str(key) of a subtask key *)
py_str(key) ==
    CASE key.t = "int" -> str_int(key.v)
      [] key.t = "str" -> <<key.v>>
      [] key.t = "tuple" -> <<"(">> \o str_int(key.v[1].v) \o <<", ">> \o str_int(key.v[2].v) \o <<")">>
      [] key.t = "list" -> <<"[">> \o str_int(key.v[1].v) \o <<", ">> \o str_int(key.v[2].v) \o <<"]">>
      [] key.t = "none" -> <<"None">>

subtask_directory(key) ==
    CASE key.t = "tuple" -> id_str_(key.v[1].v) \o <<"_">> \o id_str_(key.v[2].v)
      [] key.t = "int" -> id_str_(key.v)
      [] key.t = "str" -> <<key.v>>

subtask_block(key) ==
    IF key.t = "tuple"
    THEN <<[pes |-> key.v[1].v, channels |-> <<Int1(key.v[2].v)>>]>>
    ELSE <<Int1(key.v)>>

TaskPathByName(out_path, group_id, task_key, name) ==
    Append(out_path, str_int(group_id) \o <<"_">> \o name)

(* out_path / f"{group_id}_{task_key:02d}_{task.name}" *)
TaskPath(out_path, group_id, task_key, name) ==
    Append(out_path, str_int(group_id) \o <<"_">> \o id_str_(task_key) \o <<"_">> \o name)

SubtaskPath(out_path, group_id, task_key, name, key) ==
    Append(TaskPath(out_path, group_id, task_key, name), subtask_directory(key))

YamlPath(out_path, group_id) == Append(out_path, str_int(group_id) \o <<".yaml">>)
CsvPath(out_path, group_id) == Append(out_path, str_int(group_id) \o <<".csv">>)
InfoPath(out_path) == Append(out_path, INFO_FILE)

(* os.path.isabs of a path given as text *)
IsAbsolute(w) == Len(w) > 0 /\ w[1] = "/"

Parent(path) == SubSeq(path, 1, Len(path) - 1)
Prefixes(path) == {SubSeq(path, 1, k) : k \in 0..Len(path)}

(* Path.mkdir(parents=..., exist_ok=...) on the set of directories *)
mkdir(dirs, path, parents, exist_ok) ==
    IF path \in dirs
    THEN IF exist_ok THEN Ok(dirs) ELSE Raise("FileExistsError")
    ELSE IF Parent(path) \notin dirs /\ ~parents THEN Raise("FileNotFoundError")
    ELSE Ok(dirs \cup (IF parents THEN Prefixes(path) ELSE {path}))

(* The flags of the three mkdir calls of setup *)
OutPathExistOk == TRUE
SubtaskDirMustBeNew == FALSE
SubtaskDirExistOk == TRUE
InpDirExistOk == TRUE

read_input_files(files) ==
    IF \A i \in 1..Len(InputFileOrder) : InputFileOrder[i] \in DOMAIN files
    THEN Ok([n \in {InputFileOrder[i] : i \in 1..Len(InputFileOrder)} |-> files[n]])
    ELSE Raise("FileNotFoundError")

(* The prefix of the input block, or the override when one is given *)
ExtractPath(run_dct, key) ==
    IF key \in DOMAIN run_dct["input"] THEN Ok(run_dct["input"][key])
    ELSE Raise("ParseException")

filesystem_paths_from_run_dict(run_dct, save_path, run_path) ==
    Bind(IF save_path = None THEN ExtractPath(run_dct, "save_prefix") ELSE Ok(save_path.v),
         LAMBDA save :
    Bind(IF run_path = None THEN ExtractPath(run_dct, "run_prefix") ELSE Ok(run_path.v),
         LAMBDA run :
            Ok([save_path |-> save, run_path |-> run])))

(* run_dct["input"] = f"run_prefix = {run_path}\nsave_prefix = {save_path}" *)
InputBlock(save_path, run_path) ==
    [k \in {"run_prefix", "save_prefix"} |->
        IF k = "run_prefix" THEN run_path ELSE save_path]

(* The run.dat dictionary of one subtask with the task block of the input *)
SubtaskRunDctOfBlock(run_dct, task_type, key_type, task, key) ==
    LET block_keys == {"input"} \cup (IF key_type = "None" THEN {"pes", "spc"} ELSE {key_type})
        dom == block_keys \cup {task_type} \cup (IF key # all_key THEN {key_type} ELSE {})
    IN  [k \in dom |->
            IF key # all_key /\ k = key_type THEN subtask_block(key) ELSE run_dct[k]]

(* The run.dat dictionary of one subtask *)
SubtaskRunDct(run_dct, task_type, key_type, task, key) ==
    LET block_keys == {"input"} \cup (IF key_type = "None" THEN {"pes", "spc"} ELSE {key_type})
        dom == block_keys \cup {task_type} \cup (IF key # all_key THEN {key_type} ELSE {})
    IN  [k \in dom |->
            IF key # all_key /\ k = key_type THEN subtask_block(key)
            ELSE IF k = task_type THEN <<task.line>>
            ELSE run_dct[k]]

(* write_input_files: inp/ is made, then every file of the dictionary is written *)
write_input_files(the_fs, run_dir, file_dct) ==
    Bind(mkdir(the_fs.dirs, Append(run_dir, <<"inp">>), FALSE, InpDirExistOk), LAMBDA dirs :
        Ok([dirs |-> dirs,
            files |-> [p \in DOMAIN the_fs.files
                               \cup {run_dir \o << <<"inp">>, <<n>> >> : n \in DOMAIN file_dct} |->
                         IF \E n \in DOMAIN file_dct : p = run_dir \o << <<"inp">>, <<n>> >>
                         THEN file_dct[CHOOSE n \in DOMAIN file_dct :
                                           p = run_dir \o << <<"inp">>, <<n>> >>]
                         ELSE the_fs.files[p]]]))

(* {**file_dct, "run.dat": form_run_dat(subtask_run_dct)} *)
SubtaskFileDct(run_dct, file_dct, task_type, key_type, task, key) ==
    [n \in DOMAIN file_dct \cup {"run.dat"} |->
        IF n = "run.dat"
        THEN form_run_dat(SubtaskRunDct(run_dct, task_type, key_type, task, key))
        ELSE file_dct[n]]

(* One pass of the inner loop of setup_subtask_group: the directory is     *)
(* made, with its parents, and the input files are written into it         *)
SetupSubtaskDirectory(the_fs, subtask_path, subtask_file_dct) ==
    Bind(mkdir(the_fs.dirs, subtask_path, TRUE, SubtaskDirExistOk), LAMBDA dirs :
        write_input_files([the_fs EXCEPT !.dirs = dirs], subtask_path, subtask_file_dct))

(* pandas.DataFrame(row_dcts).to_csv(index=False): the columns in order of  *)
(* first appearance, each header the str() of its key, one row per task,   *)
(* and an empty cell where a row has no value for a column.  A row_dct is  *)
(* [keys, vals]: the keys in insertion order and their values.             *)
TASK == PyStr("task")
EmptyCell == [t |-> "nan", v |-> <<>>]
StrCell(w) == [t |-> "str", v |-> w]
PathCell(p) == [t |-> "path", v |-> p]

Lookup(row_dct, key) ==
    LET at == {i \in 1..Len(row_dct.keys) : row_dct.keys[i] = key}
    IN  IF at = {} THEN EmptyCell ELSE row_dct.vals[CHOOSE i \in at : TRUE]

to_csv(row_dcts) ==
    LET columns == unique_everseen(Flatten([i \in 1..Len(row_dcts) |-> row_dcts[i].keys]))
    IN  [columns |-> [k \in 1..Len(columns) |-> py_str(columns[k])],
         rows |-> [i \in 1..Len(row_dcts) |->
                    [k \in 1..Len(columns) |-> Lookup(row_dcts[i], columns[k])]]]

(* info_path.write_text(yaml.safe_dump(info_dct)) *)
InfoDct(save_path, run_path, group_ids) ==
    [save_path |-> save_path, run_path |-> run_path, work_path |-> WorkPath,
     group_ids |-> group_ids]

(* Group ids that start from 1 *)
GroupIdsFromOne(groups) == [i \in 1..Len(groups) |-> i]

(* group_ids = list(range(len(groups))) *)
group_ids_of(groups) == [i \in 1..Len(groups) |-> i - 1]

(* The group id that zip(group_ids, groups) pairs with the group at a position *)
IdAt(groups, position) == group_ids_of(groups)[position + 1]

GroupsDoneEarly(group_id, groups) == group_id = Len(groups) - 1

(* The for loop of main is over when every group has been set up *)
GroupsDone(group_id, groups) == group_id = Len(groups)

----------------------------------------------------------------------------
(* Setup: main, step by step.  A state of a run is [pc, loc, fs, wrote];   *)
(* wrote lists the paths written by the run, in order.                     *)

NoLoc ==
    [file_dct |-> <<>>, run_dct |-> <<>>, save_path |-> <<>>, run_path |-> <<>>,
     group_id |-> 0, tasks |-> <<>>, task_key |-> 0, key_idx |-> 1,
     row_dct |-> <<>>, row_dcts |-> <<>>, err |-> "none"]

Failed(st, e) == [st EXCEPT !.pc = "failed", !.loc.err = e]

(* The rest of a step on the value of a call; main ends when it raises *)
Try(st, r, Rest(_)) ==
    CHOOSE out \in {IF x.err # "none" THEN Failed(st, x.err) ELSE Rest(x.val) : x \in {r}} :
        TRUE

NewRow(task) == [keys |-> <<TASK>>, vals |-> <<StrCell(task.name)>>]

(* path = Path(path); file_dct = read_input_files(path);                   *)
(* run_dct = parse_run_dat(file_dct.get("run.dat"))                        *)
StepRead(the_inp, st) ==
    Try(st, read_input_files(the_inp.files), LAMBDA file_dct :
    Try(st, parse_run_dat(file_dct["run.dat"]), LAMBDA run_dct :
        [st EXCEPT !.pc = "paths", !.loc.file_dct = file_dct, !.loc.run_dct = run_dct]))

(* The save and run paths, and the input block made from them *)
StepPaths(the_inp, st) ==
    Try(st, filesystem_paths_from_run_dict(st.loc.run_dct, the_inp.save_path,
                                           the_inp.run_path),
        LAMBDA paths :
            [st EXCEPT !.pc = "mkdir",
                       !.loc.save_path = paths.save_path,
                       !.loc.run_path = paths.run_path,
                       !.loc.run_dct = [st.loc.run_dct EXCEPT !["input"] =
                            InputBlock(paths.save_path, paths.run_path)]])

(* out_path.mkdir(exist_ok=True) *)
StepMkdir(the_inp, st) ==
    Try(st, mkdir(st.fs.dirs, the_inp.out_path, FALSE, OutPathExistOk), LAMBDA dirs :
        [st EXCEPT !.pc = IF GroupsDone(0, the_inp.groups) THEN "info" ELSE "group",
                   !.loc.group_id = 0,
                   !.fs.dirs = dirs])

(* setup_subtask_group up to its loops: the tasks and the YAML file *)
StepGroup(the_inp, st) ==
    Try(st, determine_task_list(st.loc.run_dct, st.loc.file_dct,
                                the_inp.groups[st.loc.group_id + 1][1],
                                the_inp.groups[st.loc.group_id + 1][2]),
        LAMBDA tasks :
            LET nokeys == \A i \in 1..Len(tasks) : Len(tasks[i].subtask_keys) = 0
                yaml_path == YamlPath(the_inp.out_path, IdAt(the_inp.groups, st.loc.group_id))
            IN  [st EXCEPT
                    !.pc = IF nokeys THEN "csv" ELSE "subtask",
                    !.loc.tasks = tasks,
                    !.loc.task_key = 0,
                    !.loc.key_idx = 1,
                    !.loc.row_dct = IF nokeys THEN <<>> ELSE NewRow(tasks[1]),
                    !.loc.row_dcts = IF nokeys
                                     THEN [i \in 1..Len(tasks) |-> NewRow(tasks[i])]
                                     ELSE <<>>,
                    !.fs.files = write_task_list(st.fs.files, tasks, yaml_path),
                    !.wrote = Append(st.wrote, yaml_path)])

(* One pass of the loop over task.subtask_keys; the row is appended after  *)
(* the last key of a task.                                                 *)
StepSubtask(the_inp, st) ==
    LET group == the_inp.groups[st.loc.group_id + 1]
        task == st.loc.tasks[st.loc.task_key + 1]
        key == task.subtask_keys[st.loc.key_idx]
        subtask_path == SubtaskPath(the_inp.out_path, IdAt(the_inp.groups, st.loc.group_id),
                                    st.loc.task_key, task.name, key)
        row_dct == [keys |-> Append(st.loc.row_dct.keys, key),
                    vals |-> Append(st.loc.row_dct.vals, PathCell(subtask_path))]
        last_key == st.loc.key_idx = Len(task.subtask_keys)
        last_task == st.loc.task_key + 1 = Len(st.loc.tasks)
    IN  Try(st, SetupSubtaskDirectory(st.fs, subtask_path,
                    SubtaskFileDct(st.loc.run_dct, st.loc.file_dct, group[1], group[2],
                                   task, key)),
            LAMBDA new_fs :
                [st EXCEPT
                    !.pc = IF last_key /\ last_task THEN "csv" ELSE "subtask",
                    !.loc.key_idx = IF last_key THEN 1 ELSE st.loc.key_idx + 1,
                    !.loc.task_key = IF last_key THEN st.loc.task_key + 1
                                     ELSE st.loc.task_key,
                    !.loc.row_dct = IF ~last_key THEN row_dct
                                    ELSE IF last_task THEN <<>>
                                    ELSE NewRow(st.loc.tasks[st.loc.task_key + 2]),
                    !.loc.row_dcts = IF last_key THEN Append(st.loc.row_dcts, row_dct)
                                     ELSE st.loc.row_dcts,
                    !.fs = new_fs,
                    !.wrote = st.wrote \o
                        [i \in 1..Len(InputFileOrder) |->
                            subtask_path \o << <<"inp">>, <<InputFileOrder[i]>> >>]])

(* df.to_csv(csv_path, index=False), and the next turn of the loop of main *)
StepCsv(the_inp, st) ==
    LET csv_path == CsvPath(the_inp.out_path, IdAt(the_inp.groups, st.loc.group_id))
    IN  [st EXCEPT
            !.pc = IF GroupsDone(st.loc.group_id + 1, the_inp.groups) THEN "info" ELSE "group",
            !.loc.group_id = st.loc.group_id + 1,
            !.fs.files = WriteText(st.fs.files, csv_path, to_csv(st.loc.row_dcts)),
            !.wrote = Append(st.wrote, csv_path)]

(* info_path.write_text(yaml.safe_dump(info_dct)) *)
StepInfo(the_inp, st) ==
    LET info_path == InfoPath(the_inp.out_path)
    IN  [st EXCEPT
            !.pc = "done",
            !.fs.files = WriteText(st.fs.files, info_path,
                            InfoDct(st.loc.save_path, st.loc.run_path,
                                    group_ids_of(the_inp.groups))),
            !.wrote = Append(st.wrote, info_path)]

SetupStep(the_inp, st) ==
    CASE st.pc = "read" -> StepRead(the_inp, st)
      [] st.pc = "paths" -> StepPaths(the_inp, st)
      [] st.pc = "mkdir" -> StepMkdir(the_inp, st)
      [] st.pc = "group" -> StepGroup(the_inp, st)
      [] st.pc = "subtask" -> StepSubtask(the_inp, st)
      [] st.pc = "csv" -> StepCsv(the_inp, st)
      [] st.pc = "info" -> StepInfo(the_inp, st)

(* main from its first statement on a given filesystem, run to its end *)
RECURSIVE RunFrom(_, _)
RunFrom(the_inp, st) ==
    IF st.pc \in {"done", "failed"} THEN st
    ELSE CHOOSE end \in {RunFrom(the_inp, next) : next \in {SetupStep(the_inp, st)}} : TRUE

StartOn(the_fs) == [pc |-> "read", loc |-> NoLoc, fs |-> the_fs, wrote |-> <<>>]

----------------------------------------------------------------------------
(* SpecSetup: setup runs, interrupted or not, over one out_path *)

MaxRuns == 2        \* setup is run at most MaxRuns times on the same out_path

AbsRun == <<"/", "scratch", "/", "run">>
AbsSave == <<"/", "scratch", "/", "save">>
RelRun == <<"run">>
RelSave == <<".", "/", "save">>

spc_lvl2 == <<T("spc"), T("conf_opt"), F("runlvl", <<"lvl2">>)>>
ts_lvl2 == <<T("ts"), T("find_ts"), F("runlvl", <<"lvl2">>)>>

SetupSeries == { <<Int1(2), Int1(1)>>, <<Range(1, 2), Int1(MaxIdx)>> }

SetupElsBlocks ==
    { <<spc_init, spc_samp, ts_find>>,
      <<spc_samp, spc_samp_default, ts_find, ts_samp, ts_find>>,
      <<spc_init, spc_lvl2, ts_find>>,
      <<spc_init, ts_find, ts_bare>>,
      <<spc_init, ts_find, ts_lvl2>>,
      <<spc_init, spc_samp>> }

SetupInputBlocks ==
    { [run_prefix |-> AbsRun, save_prefix |-> AbsSave],
      [run_prefix |-> RelRun, save_prefix |-> RelSave],
      [run_prefix |-> AbsRun] }

SetupOverrides ==
    { [save_path |-> None, run_path |-> None],
      [save_path |-> PyStr(RelSave), run_path |-> None],
      [save_path |-> PyStr(AbsSave), run_path |-> PyStr(AbsRun)] }

(* A run.dat with its blocks in the order in which form_run_dat writes them *)
RunDat(series, els, input) ==
    form_run_dat([input |-> input, spc |-> series, pes |-> PesBlockOf(series), els |-> els,
                  thermo |-> <<write_mess, run_mess>>,
                  kin |-> <<write_mess, run_mess, run_fits>>])

InpDir(run_dat) ==
    [n \in {InputFileOrder[i] : i \in 1..Len(InputFileOrder)} |->
        CASE n = "run.dat" -> run_dat
          [] n = "theory.dat" -> TheoryDat
          [] n = "species.csv" -> <<[inchi |-> 0], [inchi |-> MaxTors]>>
          [] OTHER -> <<n>>]

Without(f, k) == [x \in DOMAIN f \ {k} |-> f[x]]
WithoutBlock(run_dat, k) == SelectSeq(run_dat, LAMBDA section : section.key # k)

BaseSeries == <<Int1(2), Int1(1)>>
BaseEls == <<spc_init, spc_samp, ts_find>>
BaseInput == [run_prefix |-> AbsRun, save_prefix |-> AbsSave]
BaseRunDat == RunDat(BaseSeries, BaseEls, BaseInput)

(* The contents of inp/: the base input varied in its series and els block, *)
(* in its input block, by a missing file and by a missing block             *)
SetupInpDirs ==
    {InpDir(RunDat(s, e, BaseInput)) : s \in SetupSeries, e \in SetupElsBlocks}
        \cup {InpDir(RunDat(BaseSeries, BaseEls, i)) : i \in SetupInputBlocks}
        \cup {Without(InpDir(BaseRunDat), "species.csv"),
              InpDir(WithoutBlock(BaseRunDat, "kin"))}

SetupInputs ==
    {[files |-> d, save_path |-> None, run_path |-> None,
      out_path |-> SUBTASK_DIR, groups |-> DEFAULT_GROUPS] : d \in SetupInpDirs}
        \cup {[files |-> InpDir(RunDat(BaseSeries, BaseEls, i)),
               save_path |-> o.save_path, run_path |-> o.run_path,
               out_path |-> SUBTASK_DIR, groups |-> DEFAULT_GROUPS] :
                   i \in SetupInputBlocks, o \in SetupOverrides}

(* Other groups than the default ones, in another order *)
OtherGroups ==
    { << <<"kin", "None">>, <<"els", "spc">> >>,
      << <<"thermo", "spc">>, <<"els", "pes">>, <<"els", "spc">> >> }

SetupStarts ==
    SetupInputs \cup {[files |-> InpDir(BaseRunDat), save_path |-> None, run_path |-> None,
                        out_path |-> SUBTASK_DIR, groups |-> g] : g \in OtherGroups}

InitSetup ==
    /\ inp \in SetupStarts
    /\ pc = "read"
    /\ loc = NoLoc
    /\ fs = EmptyFs
    /\ hist = [run |-> 1, wrote |-> <<>>, prev |-> [end |-> "none", fs |-> EmptyFs]]
    /\ PureUnused /\ AdhocUnused

Now == [pc |-> pc, loc |-> loc, fs |-> fs, wrote |-> hist.wrote]

Becomes(st) ==
    /\ pc' = st.pc
    /\ loc' = st.loc
    /\ fs' = st.fs
    /\ hist' = [hist EXCEPT !.wrote = st.wrote]
    /\ UNCHANGED <<inp, pure_vars, adhoc_vars>>

SetupRead == pc = "read" /\ Becomes(StepRead(inp, Now))
SetupPaths == pc = "paths" /\ Becomes(StepPaths(inp, Now))
SetupMkdir == pc = "mkdir" /\ Becomes(StepMkdir(inp, Now))
SetupGroup == pc = "group" /\ Becomes(StepGroup(inp, Now))
SetupSubtask == pc = "subtask" /\ Becomes(StepSubtask(inp, Now))
SetupCsv == pc = "csv" /\ Becomes(StepCsv(inp, Now))
SetupInfo == pc = "info" /\ Becomes(StepInfo(inp, Now))

(* The process is interrupted between two steps *)
Kill ==
    /\ pc \in {"read", "paths", "mkdir", "group", "subtask", "csv", "info"}
    /\ pc' = "killed"
    /\ UNCHANGED <<loc, fs, hist, inp, pure_vars, adhoc_vars>>

(* The command is given again, with the same input and the same out_path *)
Rerun ==
    /\ pc \in {"done", "failed", "killed"}
    /\ hist.run < MaxRuns
    /\ pc' = "read"
    /\ loc' = NoLoc
    /\ hist' = [run |-> hist.run + 1, wrote |-> <<>>, prev |-> [end |-> pc, fs |-> fs]]
    /\ UNCHANGED <<fs, inp, pure_vars, adhoc_vars>>

NextSetup ==
    \/ SetupRead \/ SetupPaths \/ SetupMkdir \/ SetupGroup \/ SetupSubtask
    \/ SetupCsv \/ SetupInfo \/ Kill \/ Rerun

SpecSetup == InitSetup /\ [][NextSetup]_vars

----------------------------------------------------------------------------
(* Properties of setup *)

IndexOf(seq, x) == CHOOSE i \in 1..Len(seq) : seq[i] = x
Wrote(path) == \E i \in 1..Len(hist.wrote) : hist.wrote[i] = path
WroteBefore(a, b) == Wrote(a) /\ Wrote(b) /\ IndexOf(hist.wrote, a) < IndexOf(hist.wrote, b)
GroupIds == 0..(Len(inp.groups) - 1)

(* C5: within one run of setup, info.yaml is written only after the YAML   *)
(* and the CSV file of every group have been written by that run, and a    *)
(* run that fails has not written info.yaml.                               *)
C5_InfoWrittenLast ==
    LET info_path == InfoPath(inp.out_path)
    IN  /\ Wrote(info_path) =>
                \A g \in GroupIds :
                    /\ WroteBefore(YamlPath(inp.out_path, g), info_path)
                    /\ WroteBefore(CsvPath(inp.out_path, g), info_path)
        /\ pc \in {"failed", "killed"} => ~Wrote(info_path)
        /\ hist.wrote # <<>> /\ hist.wrote[Len(hist.wrote)] # info_path => pc # "done"

C5_Witness ==
    /\ pc = "done"
    /\ Wrote(InfoPath(inp.out_path))
    /\ hist.run = MaxRuns

C5_FailedWitness ==
    /\ pc = "failed"
    /\ Wrote(CsvPath(inp.out_path, 0))

IsRunDat(path) ==
    /\ Len(path) >= 2
    /\ path[Len(path)] = <<"run.dat">>
    /\ path[Len(path) - 1] = <<"inp">>

(* C6: the input block of every run.dat written into a subtask directory,  *)
(* and the run_path and save_path of info.yaml, hold absolute paths.       *)
C6_WrittenPathsAbsolute ==
    \A path \in DOMAIN fs.files :
        /\ IsRunDat(path) =>
                \A i \in 1..Len(fs.files[path]) :
                    fs.files[path][i].key = "input" =>
                        /\ IsAbsolute(fs.files[path][i].block.run_prefix)
                        /\ IsAbsolute(fs.files[path][i].block.save_prefix)
        /\ path = InfoPath(inp.out_path) =>
                /\ IsAbsolute(fs.files[path].run_path)
                /\ IsAbsolute(fs.files[path].save_path)

(* The cells of the tables in the filesystem that name a directory *)
TableOf(g) == fs.files[CsvPath(inp.out_path, g)]

TableCells ==
    UNION {{[group_id |-> g, row |-> i, col |-> k] :
                i \in 1..Len(TableOf(g).rows), k \in 1..Len(TableOf(g).columns)} :
            g \in {h \in GroupIds : CsvPath(inp.out_path, h) \in DOMAIN fs.files}}

HasCell(c) == TableOf(c.group_id).rows[c.row][c.col].t = "path"

CellOf(c) == TableOf(c.group_id).rows[c.row][c.col]
TaskNameOf(c) == TableOf(c.group_id).rows[c.row][1]

(* C7: two different cells of the tables written, in one group or in two,  *)
(* never name the same directory, whatever the task names are.             *)
C7_SubtaskDirectoriesDistinct ==
    \A c, d \in {x \in TableCells : HasCell(x)} :
        c # d => CellOf(c).v # CellOf(d).v

C7_Witness ==
    /\ pc = "done"
    /\ \E c, d \in {x \in TableCells : HasCell(x)} :
            c.group_id = d.group_id /\ c.row # d.row /\ TaskNameOf(c) = TaskNameOf(d)
    /\ \E c, d \in {x \in TableCells : HasCell(x)} :
            c.group_id # d.group_id /\ TaskNameOf(c) = TaskNameOf(d)

(* C8: a run of setup over the out_path left by an earlier run, complete   *)
(* or not, of the same input ends as a run on an empty out_path ends: with *)
(* the same outcome (never an error for what exists), the same directories *)
(* and the same content of every file; what the earlier run left is kept.  *)
C8_RerunSameLayout ==
    (hist.run >= 2 /\ pc \in {"done", "failed"}) =>
        LET clean == RunFrom(inp, StartOn(EmptyFs))
        IN  /\ pc = clean.pc
            /\ loc.err = clean.loc.err
            /\ loc.err # "FileExistsError"
            /\ fs = clean.fs
            /\ hist.prev.fs.dirs \subseteq fs.dirs
            /\ \A path \in DOMAIN hist.prev.fs.files :
                    path \in DOMAIN fs.files /\ fs.files[path] = hist.prev.fs.files[path]
            /\ hist.prev.end = "done" => fs = hist.prev.fs

C8_Witness ==
    /\ hist.run >= 2
    /\ pc = "done"
    /\ hist.prev.end = "killed"
    /\ \E path \in DOMAIN hist.prev.fs.files : IsRunDat(path)
    /\ hist.prev.fs # fs

(* The task lines of a group of the input, when run.dat has their block *)
InputRunDct ==
    IF "run.dat" \in DOMAIN inp.files THEN parse_run_dat(inp.files["run.dat"])
    ELSE Raise("FileNotFoundError")

GroupLines(g) ==
    CHOOSE lines \in
        {IF r.err # "none" THEN <<>>
         ELSE task_lines_from_run_dict(r.val, inp.groups[g + 1][1],
                                       inp.groups[g + 1][2]).val : r \in {InputRunDct}} : TRUE

(* A line of the group names a run level that theory.dat does not define *)
UndefinedLevel(g) ==
    \E lines \in {GroupLines(g)} :
        \E i \in 1..Len(lines) : \E k \in 1..Len(lines[i]) :
            /\ lines[i][k].key = "runlvl"
            /\ lines[i][k].val \notin DOMAIN inp.files["theory.dat"]

(* C11: when a task line of a group has runlvl=<level> and theory.dat does *)
(* not define the level, the run never gets past resolving that group: it  *)
(* ends there with an error, no task list of the group is produced, and    *)
(* neither <group_id>.yaml nor <group_id>.csv exists.                      *)
C11_UndefinedLevelFails ==
    \A g \in GroupIds :
        UndefinedLevel(g) =>
            /\ loc.group_id <= g
            /\ pc # "done"
            /\ (loc.group_id = g => pc \notin {"subtask", "csv", "info"})
            /\ (pc = "failed" => loc.err # "none")
            /\ YamlPath(inp.out_path, g) \notin DOMAIN fs.files
            /\ CsvPath(inp.out_path, g) \notin DOMAIN fs.files

C11_Witness ==
    /\ pc = "failed"
    /\ loc.err = "AttributeError"
    /\ loc.group_id = 1
    /\ UndefinedLevel(1)
    /\ CsvPath(inp.out_path, 0) \in DOMAIN fs.files

(* The subtask keys of a group of the input *)
GroupKeys(g) ==
    CHOOSE keys \in
        {subtask_keys_from_run_dict(r.val, inp.groups[g + 1][2]).val : r \in {InputRunDct}} :
            TRUE

(* The table of group g has a row for each task line of the group, in the  *)
(* order of the lines, with the task name in the column `task` and, in the *)
(* column of each subtask key, the path of the directory of the subtask,   *)
(* which exists and has the input files in inp/                            *)
IsTableOfGroup(g) ==
    \A lines \in {GroupLines(g)} : \A keys \in {GroupKeys(g)} : \A table \in {TableOf(g)} :
        /\ Len(table.rows) = Len(lines)
        /\ table.columns = <<py_str(TASK)>> \o [k \in 1..Len(keys) |-> py_str(keys[k])]
        /\ \A i \in 1..Len(lines) :
                /\ Len(table.rows[i]) = 1 + Len(keys)
                /\ table.rows[i][1] = StrCell(parse_task_name(lines[i]).val)
                /\ \A k \in 1..Len(keys) :
                        LET cell == table.rows[i][k + 1]
                        IN  /\ cell = PathCell(SubtaskPath(inp.out_path, g, i - 1,
                                            parse_task_name(lines[i]).val, keys[k]))
                            /\ cell.v \in fs.dirs
                            /\ \A n \in 1..Len(InputFileOrder) :
                                    cell.v \o << <<"inp">>, <<InputFileOrder[n]>> >>
                                        \in DOMAIN fs.files

(* C16: when the table of a group has been written, it has one row per     *)
(* Task in the order of the task lines, a column `task` with the task      *)
(* names and one column per subtask key, and every cell of a key column is *)
(* the path of an existing subtask directory that holds the input files.   *)
C16_TableOfGroup ==
    \A g \in GroupIds :
        CsvPath(inp.out_path, g) \in DOMAIN fs.files => IsTableOfGroup(g)

(* The same for the groups that have a task line *)
C16_TableOfGroupWithTasks ==
    \A g \in GroupIds :
        (CsvPath(inp.out_path, g) \in DOMAIN fs.files /\ GroupLines(g) # <<>>) =>
            IsTableOfGroup(g)

C16_WithTasksWitness ==
    /\ pc = "done"
    /\ \A g \in GroupIds : GroupLines(g) # <<>> /\ IsTableOfGroup(g)
    /\ Len(TableOf(0).rows) > 1 /\ Len(TableOf(0).columns) > 2

(* The run.dat written for the task at position i of group g and a key *)
RunDatPath(g, i, name, key) ==
    SubtaskPath(inp.out_path, g, i - 1, name, key) \o << <<"inp">>, <<"run.dat">> >>

HasBlock(run_dat, k) == \E n \in 1..Len(run_dat) : run_dat[n].key = k
BlockOf(run_dat, k) == run_dat[CHOOSE n \in 1..Len(run_dat) : run_dat[n].key = k].block

(* The entry of a key in the block of its subtask type *)
EntryOf(key) ==
    IF key.t = "tuple" THEN [pes |-> key.v[1].v, channels |-> <<Int1(key.v[2].v)>>]
    ELSE Int1(key.v)

(* The task block has the line of the task alone and no other task block   *)
(* is there; for a key that is not the sentinel, the block of the subtask  *)
(* type has the entry of the key alone                                     *)
OnlyTaskAndKey(run_dat, group, line, key) ==
    /\ HasBlock(run_dat, group[1]) /\ BlockOf(run_dat, group[1]) = <<line>>
    /\ \A k \in TaskBlocks \ {group[1]} : ~HasBlock(run_dat, k)
    /\ key # all_key =>
            HasBlock(run_dat, group[2]) /\ BlockOf(run_dat, group[2]) = <<EntryOf(key)>>

(* A property of every run.dat that is in the directory of a subtask *)
EveryRunDat(P(_, _, _, _)) ==
    \A g \in GroupIds :
        YamlPath(inp.out_path, g) \in DOMAIN fs.files =>
            \A lines \in {GroupLines(g)} : \A keys \in {GroupKeys(g)} :
                \A i \in 1..Len(lines) : \A k \in 1..Len(keys) :
                    \A path \in {RunDatPath(g, i, parse_task_name(lines[i]).val, keys[k])} :
                        path \in DOMAIN fs.files =>
                            P(fs.files[path], inp.groups[g + 1], lines[i], keys[k])

(* C24, as stated: the run.dat in the directory of the subtask (task, key) *)
(* has the line of the task alone in the task block, no other task block,  *)
(* and the entry of the key alone in the spc or pes block; when the key is *)
(* the sentinel `all`, it has no spc and no pes block.                     *)
C24_NarrowedOrOmitted ==
    EveryRunDat(LAMBDA run_dat, group, line, key :
        /\ OnlyTaskAndKey(run_dat, group, line, key)
        /\ key = all_key => ~HasBlock(run_dat, "spc") /\ ~HasBlock(run_dat, "pes"))

(* C24, amended: the same, but when the key is the sentinel `all` the spc  *)
(* and the pes block are both there as the input run.dat has them.         *)
C24_NarrowedOrWhole ==
    EveryRunDat(LAMBDA run_dat, group, line, key :
        /\ OnlyTaskAndKey(run_dat, group, line, key)
        /\ key = all_key =>
                \A k \in {"spc", "pes"} :
                    /\ HasBlock(run_dat, k)
                    /\ BlockOf(run_dat, k) = BlockOf(inp.files["run.dat"], k))

C24_Witness ==
    /\ pc = "done"
    /\ \E path \in DOMAIN fs.files :
            /\ IsRunDat(path)
            /\ HasBlock(fs.files[path], "kin") /\ HasBlock(fs.files[path], "spc")
            /\ Len(BlockOf(fs.files[path], "spc")) > 1
    /\ \E path \in DOMAIN fs.files :
            /\ IsRunDat(path)
            /\ HasBlock(fs.files[path], "els")
            /\ BlockOf(fs.files[path], "els") = <<ts_find>>
            /\ BlockOf(fs.files[path], "pes") = <<[pes |-> 1, channels |-> <<Int1(2)>>]>>

(* What is directly under out_path: the directories of the tasks and the  *)
(* files of the groups                                                     *)
Under(paths) == {p \in paths : Len(p) = Len(inp.out_path) + 1}

(* The task lines of every group of the input *)
LinesOfGroups ==
    CHOOSE all \in
        {[g \in GroupIds |->
            IF r.err # "none" THEN <<>>
            ELSE task_lines_from_run_dict(r.val, inp.groups[g + 1][1],
                                          inp.groups[g + 1][2]).val] : r \in {InputRunDct}} : TRUE

TaskDirs(g, lines) ==
    {TaskPath(inp.out_path, g, i - 1, parse_task_name(lines[i]).val) : i \in 1..Len(lines)}

TaskDirsOf(g) == TaskDirs(g, GroupLines(g))

LinesOfYaml(g) ==
    [i \in 1..Len(fs.files[YamlPath(inp.out_path, g)]) |->
        fs.files[YamlPath(inp.out_path, g)][i].line.v]

(* C27: the groups are set up in the order in which they are given, the    *)
(* group at position i (from 0) under the group id i: the files i.yaml and *)
(* i.csv and the directories i_<task>_<name> are those of the tasks of     *)
(* that group, nothing under out_path has another prefix, and info.yaml    *)
(* has the group ids 0, 1, ..., n - 1 in this order.                       *)
C27_GroupIdIsPosition ==
    /\ \A g, h \in GroupIds :
            (g < h /\ Wrote(YamlPath(inp.out_path, h))) =>
                WroteBefore(CsvPath(inp.out_path, g), YamlPath(inp.out_path, h))
    /\ \A g \in GroupIds :
            Wrote(CsvPath(inp.out_path, g)) =>
                WroteBefore(YamlPath(inp.out_path, g), CsvPath(inp.out_path, g))
    /\ Under(fs.dirs) \cup Under(DOMAIN fs.files) # {} =>
            \A lines \in {LinesOfGroups} :
                /\ \A g \in GroupIds :
                        YamlPath(inp.out_path, g) \in DOMAIN fs.files =>
                            LinesOfYaml(g) = lines[g]
                /\ Under(fs.dirs) \subseteq UNION {TaskDirs(g, lines[g]) : g \in GroupIds}
    /\ \A f \in Under(DOMAIN fs.files) :
            \/ f = InfoPath(inp.out_path)
            \/ \E g \in GroupIds : f \in {YamlPath(inp.out_path, g), CsvPath(inp.out_path, g)}
    /\ InfoPath(inp.out_path) \in DOMAIN fs.files =>
            fs.files[InfoPath(inp.out_path)].group_ids = [i \in 1..Len(inp.groups) |-> i - 1]

C27_Witness ==
    /\ pc = "done"
    /\ inp.groups \in OtherGroups
    /\ Len(inp.groups) = 3
    /\ LinesOfYaml(0) = <<write_mess, run_mess>>
    /\ fs.files[InfoPath(inp.out_path)].group_ids = <<0, 1, 2>>
    /\ Under(fs.dirs) \cap TaskDirsOf(2) # {}

----------------------------------------------------------------------------
(* run-adhoc: reading the layout back and dispatching the rows *)

RUN_SCRIPT == <<"scripts", "/", "run_adhoc", ".sh">>

(* Path(word): the components of a path given as text *)
PathOf(w) ==
    LET names == SelectSeq(w, LAMBDA x : x \notin {"/", "."})
    IN  (IF IsAbsolute(w) THEN << <<"/">> >> ELSE <<>>)
            \o [i \in 1..Len(names) |-> <<names[i]>>]

(* str(path): the components joined by "/" *)
RECURSIVE PathStr(_)
PathStr(p) ==
    IF Len(p) = 0 THEN <<>>
    ELSE IF Len(p) = 1 THEN p[1]
    ELSE p[1] \o <<"/">> \o PathStr(Tail(p))

(* pandas.read_csv: every header and every cell is read as text, an empty  *)
(* cell as NaN; a file without a header line has no columns to parse       *)
read_csv(files, path) ==
    IF path \notin DOMAIN files THEN Raise("FileNotFoundError")
    ELSE IF files[path].columns = <<>> THEN Raise("EmptyDataError")
    ELSE LET table == files[path]
             cell(c) == CASE c.t = "path" -> PyStr(PathStr(c.v))
                          [] c.t = "str" -> PyStr(c.v)
                          [] OTHER -> [t |-> "nan", v |-> <<>>]
         IN  Ok([columns |-> table.columns,
                 rows |-> [i \in 1..Len(table.rows) |->
                            [k \in 1..Len(table.columns) |-> cell(table.rows[i][k])]]])

(* row.get(name): the cell of the column, None without such a column *)
row_get(df, row, name) ==
    LET at == {k \in 1..Len(df.columns) : df.columns[k] = name}
    IN  IF at = {} THEN None ELSE row[CHOOSE k \in at : TRUE]

(* A list that holds x once, whatever n is *)
Once(x, n) == <<x>>

(* [x] * n *)
Repeat(x, n) == [i \in 1..n |-> x]

(* One log name for every worker *)
LogOfFirstWorker(i) == <<"out", "0", ".log">>

(* f"out{i}.log" *)
log_name(i) == <<"out">> \o str_int(i) \o <<".log">>

(* The body of the loop over the rows, up to the call of subprocess.run:   *)
(* the argument list, or the exception raised                              *)
RowArgs(df, tasks, task_key, work_path, nodes, activation_hook) ==
    IF task_key + 1 > Len(tasks) THEN Raise("IndexError")
    ELSE
    LET task == tasks[task_key + 1]
        row == df.rows[task_key + 1]
        n == Min(Len(task.subtask_keys), Len(task.subtask_nworkers))
        subtask_paths ==
            Flatten([k \in 1..n |->
                Repeat(row_get(df, row, py_str(task.subtask_keys[k])),
                       task.subtask_nworkers[k])])
        subtask_logs ==
            Flatten([k \in 1..n |->
                [i \in 1..task.subtask_nworkers[k] |-> log_name(i - 1)]])
    IN  IF row_get(df, row, py_str(TASK)) # PyStr(task.name) THEN Raise("AssertionError")
        ELSE IF Len(task.subtask_keys) # Len(task.subtask_nworkers) THEN Raise("ValueError")
        ELSE IF \E i \in 1..Len(subtask_paths) : subtask_paths[i].t # "str"
        THEN Raise("TypeError")
        ELSE Ok(<<PyStr(RUN_SCRIPT),
                  PyStr(work_path),
                  PyStr(py_str(task.mem)),
                  PyStr(py_str(task.nprocs)),
                  PyList(subtask_paths),
                  PyList([i \in 1..Len(subtask_logs) |-> PyStr(subtask_logs[i])]),
                  nodes,
                  IF activation_hook = None THEN PyStr(<<>>) ELSE activation_hook>>)

(* A loop over every group id of info.yaml *)
EveryGroupId(group_ids) == group_ids

(* group_ids[:1], the group ids that the loop of main goes through *)
FirstGroupId(group_ids) == SubSeq(group_ids, 1, Min(1, Len(group_ids)))

(* subprocess.Popen(args): every argument must be text *)
Popen(run_args) ==
    IF \E i \in 1..Len(run_args) : run_args[i].t = "none" THEN Raise("TypeError")
    ELSE Ok([args |-> run_args, status |-> "running", returncode |-> -1])

RaisesOnExit(returncode) == IF returncode # 0 THEN "CalledProcessError" ELSE "none"

(* subprocess.run(run_args) is called without check=True: when the process *)
(* has exited, nothing is raised whatever its return code                  *)
run_outcome(returncode) == "none"

----------------------------------------------------------------------------
(* SpecAdhoc: run-adhoc over what setup runs have left under out_path *)

opt_line == <<T("spc"), T("conf_opt"), lvl1>>

AdhocElsBlocks ==
    { <<spc_init, spc_samp, ts_find>>,
      <<spc_init, opt_line, ts_find>>,
      <<spc_opt, spc_init, spc_energy, ts_find>> }

SetupInput(files) ==
    [files |-> files, save_path |-> None, run_path |-> None,
     out_path |-> SUBTASK_DIR, groups |-> DEFAULT_GROUPS]

(* The inputs of the setup runs whose output run-adhoc is given *)
AdhocSetups ==
    {SetupInput(InpDir(RunDat(s, e, BaseInput))) : s \in SetupSeries, e \in AdhocElsBlocks}
        \cup {SetupInput(InpDir(RunDat(BaseSeries, BaseEls,
                                       [run_prefix |-> RelRun, save_prefix |-> RelSave]))),
              SetupInput(InpDir(RunDat(BaseSeries, <<spc_init, ts_find, ts_bare>>,
                                       BaseInput))),
              SetupInput(InpDir(RunDat(BaseSeries, <<ts_find>>, BaseInput))),
              SetupInput(InpDir(RunDat(<<Int1(2)>>, BaseEls, BaseInput))),
              SetupInput(InpDir(RunDat(<<Int1(1), Range(1, 2)>>, BaseEls, BaseInput)))}

(* What a setup run leaves under out_path *)
SetupOutputs == {RunFrom(a, StartOn(EmptyFs)).fs : a \in AdhocSetups}

(* The output of one setup run with the task list of group 0 of another *)
MixedLayout(la, lb) ==
    IF YamlPath(SUBTASK_DIR, 0) \in DOMAIN la.files \cap DOMAIN lb.files
    THEN [la EXCEPT !.files[YamlPath(SUBTASK_DIR, 0)] = lb.files[YamlPath(SUBTASK_DIR, 0)]]
    ELSE la

Layouts ==
    {[fs |-> la, mixed |-> FALSE] : la \in SetupOutputs}
        \cup {[fs |-> MixedLayout(ab[1], ab[2]), mixed |-> TRUE] :
                ab \in {xy \in SetupOutputs \X SetupOutputs : xy[1] # xy[2]}}
        \cup {[fs |-> EmptyFs, mixed |-> FALSE]}

Nodes == {None, PyStr(<<"node1", ",", "node2">>)}
Hooks == {None, PyStr(<<"conda activate">>)}
ExitCodes == {0, 1}

(* The directories outside the working directory: the root, and perhaps    *)
(* the parent of the absolute run and save paths                           *)
OutsideDirs(scratch) ==
    { << <<"/">> >> } \cup (IF scratch THEN { << <<"/">>, <<"scratch">> >> } ELSE {})

NoAloc ==
    [work_path |-> <<>>, group_ids |-> <<>>, group |-> 1,
     df |-> [columns |-> <<>>, rows |-> <<>>], tasks |-> <<>>, task_key |-> 0]

InitAdhoc ==
    /\ \E l \in Layouts, scratch \in BOOLEAN :
        /\ fs = [l.fs EXCEPT !.dirs = l.fs.dirs \cup OutsideDirs(scratch)]
        /\ \E nodes \in Nodes, activation_hook \in Hooks :
            layout = [path |-> SUBTASK_DIR, nodes |-> nodes,
                      activation_hook |-> activation_hook, mixed |-> l.mixed]
    /\ apc = "load"
    /\ aloc = NoAloc
    /\ proc = <<>>
    /\ aerr = "none"
    /\ PureUnused /\ SetupUnused

AdhocFails(e) ==
    /\ apc' = "failed"
    /\ aerr' = e

(* main up to its loop: the path must exist, info.yaml is read, the run    *)
(* and save directories are made                                           *)
AdhocLoad ==
    /\ apc = "load"
    /\ LET info_path == InfoPath(layout.path)
       IN  IF layout.path \notin fs.dirs
           THEN AdhocFails("AssertionError") /\ UNCHANGED <<fs, aloc>>
           ELSE IF info_path \notin DOMAIN fs.files
           THEN AdhocFails("FileNotFoundError") /\ UNCHANGED <<fs, aloc>>
           ELSE
           LET info_dct == fs.files[info_path]
               run_made == mkdir(fs.dirs, PathOf(info_dct.run_path), FALSE, TRUE)
               save_made == mkdir(run_made.val, PathOf(info_dct.save_path), FALSE, TRUE)
           IN  IF run_made.err # "none"
               THEN AdhocFails(run_made.err) /\ UNCHANGED <<fs, aloc>>
               ELSE IF save_made.err # "none"
               THEN /\ AdhocFails(save_made.err)
                    /\ fs' = [fs EXCEPT !.dirs = run_made.val]
                    /\ UNCHANGED aloc
               ELSE /\ fs' = [fs EXCEPT !.dirs = save_made.val]
                    /\ aloc' = [aloc EXCEPT !.work_path = info_dct.work_path,
                                            !.group_ids = FirstGroupId(info_dct.group_ids)]
                    /\ apc' = IF Len(info_dct.group_ids) = 0 THEN "done" ELSE "group"
                    /\ aerr' = aerr
    /\ UNCHANGED <<layout, proc, pure_vars, setup_vars>>

(* The loop over the group ids has a turn left; the loop over the rows of  *)
(* the table is in its last turn                                           *)
MoreGroups == aloc.group < Len(aloc.group_ids)
LastRow == aloc.task_key + 1 = Len(aloc.df.rows)

(* The table and the task list of the group are read *)
AdhocGroup ==
    /\ apc = "group"
    /\ LET group_id == aloc.group_ids[aloc.group]
           df == read_csv(fs.files, CsvPath(layout.path, group_id))
           tasks == read_task_list(fs.files, YamlPath(layout.path, group_id))
       IN  IF df.err # "none" THEN AdhocFails(df.err) /\ UNCHANGED aloc
           ELSE IF tasks.err # "none" THEN AdhocFails(tasks.err) /\ UNCHANGED aloc
           ELSE /\ aloc' = [aloc EXCEPT !.df = df.val, !.tasks = tasks.val, !.task_key = 0,
                                        !.group = IF Len(df.val.rows) = 0 /\ MoreGroups
                                                  THEN aloc.group + 1 ELSE aloc.group]
                /\ apc' = IF Len(df.val.rows) > 0 THEN "row"
                           ELSE IF MoreGroups THEN "group" ELSE "done"
                /\ aerr' = aerr
    /\ UNCHANGED <<layout, fs, proc, pure_vars, setup_vars>>

(* One row: its checks, its argument list, and the start of its process *)
AdhocDispatch ==
    /\ apc = "row"
    /\ LET started == Bind(RowArgs(aloc.df, aloc.tasks, aloc.task_key, aloc.work_path,
                                   layout.nodes, layout.activation_hook),
                           LAMBDA run_args : Popen(run_args))
       IN  IF started.err # "none" THEN AdhocFails(started.err) /\ UNCHANGED proc
           ELSE /\ proc' = Append(proc, started.val)
                /\ apc' = "wait"
                /\ aerr' = aerr
    /\ UNCHANGED <<layout, fs, aloc, pure_vars, setup_vars>>

(* The process of the row exits and subprocess.run returns *)
AdhocReturn ==
    /\ apc = "wait"
    /\ \E returncode \in ExitCodes :
        /\ proc' = [proc EXCEPT ![Len(proc)] =
                        [@ EXCEPT !.status = "exited", !.returncode = returncode]]
        /\ IF run_outcome(returncode) # "none"
           THEN AdhocFails(run_outcome(returncode)) /\ UNCHANGED aloc
           ELSE /\ aloc' = [aloc EXCEPT !.task_key = aloc.task_key + 1,
                                        !.group = IF LastRow /\ MoreGroups
                                                  THEN aloc.group + 1 ELSE aloc.group]
                /\ apc' = IF ~LastRow THEN "row"
                           ELSE IF MoreGroups THEN "group" ELSE "done"
                /\ aerr' = aerr
    /\ UNCHANGED <<layout, fs, pure_vars, setup_vars>>

NextAdhoc == AdhocLoad \/ AdhocGroup \/ AdhocDispatch \/ AdhocReturn

SpecAdhoc == InitAdhoc /\ [][NextAdhoc]_vars

----------------------------------------------------------------------------
(* Properties of run-adhoc *)

RowsLeft == apc \in {"row", "wait"} /\ aloc.task_key + 1 < Len(aloc.df.rows)
Running == proc # <<>> /\ proc[Len(proc)].status = "running"

(* The argument list of row i, from the files under out_path and the      *)
(* options alone                                                          *)
ArgsOfRow(i) ==
    RowArgs(read_csv(fs.files, CsvPath(layout.path, 0)).val,
            read_task_list(fs.files, YamlPath(layout.path, 0)).val,
            i - 1, fs.files[InfoPath(layout.path)].work_path,
            layout.nodes, layout.activation_hook)

(* C4: when a row of the table names another task than the Task at its     *)
(* position, the error is raised before any process is started.            *)
C4_MismatchBeforeAnyDispatch ==
    aerr = "AssertionError" => proc = <<>>

(* C9: with a layout as setup wrote it, a node list or an activation hook  *)
(* that is not given raises nothing: no row fails for the missing option.  *)
C9_OmittedOptionsAccepted ==
    (~layout.mixed /\ (layout.nodes = None \/ layout.activation_hook = None)) =>
        aerr # "TypeError"

RECURSIVE SumTo(_, _)
SumTo(s, k) == IF k = 0 THEN 0 ELSE SumTo(s, k - 1) + s[k]

(* The lists of paths and of log names in the arguments of a process *)
PathsOf(p) == p.args[5].v
LogsOf(p) == p.args[6].v
LogName(w) == PyStr(<<"out">> \o str_int(w) \o <<".log">>)

(* The directory of a subtask of row i: the cell of the row in the column  *)
(* of the key                                                              *)
DirCell(i, key) == row_get(aloc.df, aloc.df.rows[i], py_str(key))

(* C25: for every task that is dispatched, the list of paths has the path  *)
(* of the directory of each subtask nworkers times in a row, in the order  *)
(* of the subtask keys, the list of logs has out0.log .. out<nworkers-1>   *)
(* .log at the positions of each subtask, and both lists are as long as    *)
(* the sum of subtask_nworkers.                                            *)
C25_PathsAndLogsPerWorker ==
    \A i \in 1..Len(proc) : \A task \in {aloc.tasks[i]} :
        /\ Len(PathsOf(proc[i])) = SumTo(task.subtask_nworkers, Len(task.subtask_nworkers))
        /\ Len(LogsOf(proc[i])) = SumTo(task.subtask_nworkers, Len(task.subtask_nworkers))
        /\ \A k \in 1..Len(task.subtask_keys) :
                \A w \in 0..(task.subtask_nworkers[k] - 1) :
                    \A at \in {SumTo(task.subtask_nworkers, k - 1) + w + 1} :
                        /\ PathsOf(proc[i])[at] = DirCell(i, task.subtask_keys[k])
                        /\ LogsOf(proc[i])[at] = LogName(w)
                        /\ ~layout.mixed =>
                                \A dir \in {SubtaskPath(layout.path, 0, i - 1, task.name,
                                                         task.subtask_keys[k])} :
                                    /\ dir \in fs.dirs
                                    /\ PathsOf(proc[i])[at] = PyStr(PathStr(dir))

C25_Witness ==
    /\ apc = "done"
    /\ ~layout.mixed
    /\ \E i \in 1..Len(proc) :
            /\ Len(aloc.tasks[i].subtask_keys) = 2
            /\ aloc.tasks[i].subtask_nworkers[2] > 1
            /\ Len(PathsOf(proc[i])) = 1 + aloc.tasks[i].subtask_nworkers[2]
            /\ PathsOf(proc[i])[1] # PathsOf(proc[i])[2]
            /\ PathsOf(proc[i])[2] = PathsOf(proc[i])[3]
            /\ LogsOf(proc[i])[1] = LogsOf(proc[i])[2]
            /\ LogsOf(proc[i])[2] # LogsOf(proc[i])[3]

(* The first group id of info.yaml, its table, and the argument list of   *)
(* row i of the table of a group                                           *)
FirstGroup == fs.files[InfoPath(layout.path)].group_ids[1]
FirstTable == read_csv(fs.files, CsvPath(layout.path, FirstGroup)).val

ArgsOfGroupRow(g, i) ==
    RowArgs(read_csv(fs.files, CsvPath(layout.path, g)).val,
            read_task_list(fs.files, YamlPath(layout.path, g)).val,
            i - 1, fs.files[InfoPath(layout.path)].work_path,
            layout.nodes, layout.activation_hook)

(* C26: the processes started are those of the rows of the table of the    *)
(* first group id of info.yaml, one for each row and in the order of the   *)
(* rows: process i has the arguments of row i and paths of that row only,  *)
(* a run that ends without error has started one process for every row,    *)
(* and after the last row main is over, so that no later group is reached. *)
C26_FirstGroupOnly ==
    proc # <<>> =>
        \A table \in {FirstTable} :
            /\ Len(proc) <= Len(table.rows)
            /\ \A i \in 1..Len(proc) :
                    /\ proc[i].args = ArgsOfGroupRow(FirstGroup, i).val
                    /\ \A n \in 1..Len(PathsOf(proc[i])) :
                            \E k \in 1..Len(table.columns) :
                                table.rows[i][k] = PathsOf(proc[i])[n]
            /\ aloc.df = table
            /\ apc = "done" => Len(proc) = Len(table.rows)
            /\ (Len(proc) = Len(table.rows) /\ ~Running) => apc = "done"

C26_Witness ==
    /\ apc = "done"
    /\ Len(proc) = 3
    /\ Len(fs.files[InfoPath(layout.path)].group_ids) = 4
    /\ \A g \in 1..3 : Len(fs.files[CsvPath(layout.path, g)].rows) > 0

(* The layout is what one setup run that ended without error has written, *)
(* and the directories above the run and the save directory exist          *)
SetupSucceeded ==
    /\ ~layout.mixed
    /\ InfoPath(layout.path) \in DOMAIN fs.files
    /\ \A info_dct \in {fs.files[InfoPath(layout.path)]} :
            /\ Parent(PathOf(info_dct.run_path)) \in fs.dirs
            /\ Parent(PathOf(info_dct.save_path)) \in fs.dirs

(* C28: on a layout written by one setup run that ended without error,     *)
(* and with a node list, run-adhoc raises nothing: for every row of group  *)
(* 0 the names agree, the keys and the worker counts pair up, every key    *)
(* has the path of the directory that setup made for it, and one process   *)
(* is started for each task.                                               *)
C28_ReattachesWithoutError ==
    (SetupSucceeded /\ layout.nodes # None) =>
        /\ aerr = "none"
        /\ apc \in {"row", "wait", "done"} =>
                /\ Len(aloc.df.rows) = Len(aloc.tasks)
                /\ \A i \in 1..Len(aloc.tasks) :
                        /\ Len(aloc.tasks[i].subtask_keys) = Len(aloc.tasks[i].subtask_nworkers)
                        /\ aloc.df.rows[i][1] = PyStr(aloc.tasks[i].name)
                        /\ \A k \in 1..Len(aloc.tasks[i].subtask_keys) :
                                /\ DirCell(i, aloc.tasks[i].subtask_keys[k]).t = "str"
                                /\ SubtaskPath(layout.path, 0, i - 1, aloc.tasks[i].name,
                                               aloc.tasks[i].subtask_keys[k]) \in fs.dirs
        /\ apc = "done" => Len(proc) = Len(aloc.tasks)

(* The same on the layouts whose tasks of group 0 all have as many worker  *)
(* counts as keys, and at least one task                                   *)
C28_WithPairedCounts ==
    (\E tasks \in {read_task_list(fs.files, YamlPath(layout.path, 0))} :
        /\ tasks.err = "none" /\ tasks.val # <<>>
        /\ \A i \in 1..Len(tasks.val) :
                Len(tasks.val[i].subtask_keys) = Len(tasks.val[i].subtask_nworkers)) =>
        C28_ReattachesWithoutError

(* The pair (path, log name) at a position of the two lists of a process *)
WorkerOf(p, n) == <<PathsOf(p)[n], LogsOf(p)[n]>>

(* C29: in the arguments of one process, the pairs (subtask path, log      *)
(* name) at the same positions of the list of paths and of the list of     *)
(* logs are different from one another: no two workers of a task write the *)
(* same log file in the same directory.                                    *)
C29_WorkersDistinct ==
    \A i \in 1..Len(proc) :
        /\ Len(PathsOf(proc[i])) = Len(LogsOf(proc[i]))
        /\ \A m, n \in 1..Len(PathsOf(proc[i])) :
                m # n => WorkerOf(proc[i], m) # WorkerOf(proc[i], n)

C29_Witness ==
    \E i \in 1..Len(proc) :
        /\ proc[i].status = "running"
        /\ \E m, n \in 1..Len(PathsOf(proc[i])) :
                m # n /\ PathsOf(proc[i])[m] = PathsOf(proc[i])[n]
        /\ \E m, n \in 1..Len(PathsOf(proc[i])) :
                m # n /\ LogsOf(proc[i])[m] = LogsOf(proc[i])[n]

----------------------------------------------------------------------------
(* SpecParse: the parsers of setup, each on every text of its bounds *)

(* The sections of a run.dat in every order, and with one section missing; *)
(* a task line of the els block ends with a comment that names a block     *)
Orders ==
    {p \in [1..Len(BlockKeys) -> 1..Len(BlockKeys)] :
        \A i, j \in 1..Len(BlockKeys) : p[i] = p[j] => i = j}

spc_commented == <<T("spc"), T("init_geom"), lvl1, Comment("kin")>>

ParseElsBlocks == { <<spc_commented, ts_find>>, <<ts_find>> }

ParseRunDats ==
    {[i \in 1..Len(BlockKeys) |-> RunDat(BaseSeries, e, BaseInput)[p[i]]] :
        p \in Orders, e \in ParseElsBlocks}
        \cup {WithoutBlock(RunDat(BaseSeries, e, BaseInput), BlockKeys[i]) :
                i \in 1..Len(BlockKeys), e \in ParseElsBlocks}

(* Index series as text: the entries of IndexSeries, each entry after the  *)
(* first on the same line or on a new line, and the series 2,2,1,3-4,3     *)
SeriesTexts ==
    UNION {{[i \in 1..Len(s) |-> IF i \in nl THEN OnNewLine(s[i]) ELSE s[i]] :
                nl \in SUBSET (2..Len(s))} : s \in IndexSeries}
        \cup { <<Int1(2), Int1(2), Int1(1), Range(3, 4), Int1(3)>> }

(* Parameters of the sample count: the defaults and values around them;   *)
(* a species has up to MaxTors + 1 torsions                                *)
ParamAs == {0, param_a}
ParamBs == {-1, param_b, 2}
ParamCs == {1, 2, param_c}
ParamDs == {0, 1, 5, param_a + 1, param_a + 2, param_a + 2 * param_c, 100}

SampleArgs ==
    [fn : {"sample_count_from_inchi"}, chi : 0..(MaxTors + 1),
     a : ParamAs, b : ParamBs, c : ParamCs, d : ParamDs]

(* Task lines as text: up to MaxTokens tokens, positional words and fields *)
(* in every order, a key twice among them                                  *)
MaxTokens == 4

FieldTokens ==
    {T("spc"), T("conf_opt"), lvl1, F("nprocs", <<"2">>), F("nprocs", <<"4">>)}

FieldLines == UNION {[1..n -> FieldTokens] : n \in 1..MaxTokens}

(* Blocks of task lines: up to MaxLines lines, among them a blank line, a   *)
(* line that starts with another word and a line whose first word only     *)
(* starts with the letters of a tag                                        *)
MaxLines == 3

all_samp == <<T("all"), T("conf_samp"), lvl1>>
ts_word == <<[key |-> "", val |-> <<"ts", "_guess">>], T("find_ts"), lvl1>>
spc_word == <<[key |-> "", val |-> <<"spc", "ies">>], lvl1>>
LineMenu == {spc_init, ts_find, all_samp, ts_word, spc_word, write_mess, blank}

LineBlocks == UNION {[1..n -> LineMenu] : n \in 0..MaxLines}

SubtaskTypes == {"spc", "pes", "None"}

TaskLinesArgs ==
    {[fn |-> "task_lines_from_run_dict",
      run_dct |-> [k \in TaskBlocks |-> b], task_type |-> t, subtask_type |-> s] :
        b \in LineBlocks, t \in TaskBlocks, s \in SubtaskTypes}

(* pes blocks: up to MaxPesLines lines `pes: channels`, the same pes index *)
(* on several lines and the same channel on several lines among them       *)
MaxPesLines == 3

PesChannels ==
    { <<Int1(1)>>, <<Range(1, 2)>>, <<Int1(2), Int1(1)>>, <<Range(2, MaxIdx), Int1(2)>> }

PesLines == [pes : 1..2, channels : PesChannels]

PesBlocks == UNION {[1..n -> PesLines] : n \in 1..MaxPesLines}

ParseArgs ==
    {[fn |-> "parse_run_dat", run_dat |-> r] : r \in ParseRunDats}
        \cup {[fn |-> "parse_index_series", inp |-> s] : s \in SeriesTexts}
        \cup SampleArgs
        \cup {[fn |-> "parse_task_fields", task_line |-> l] : l \in FieldLines}
        \cup TaskLinesArgs
        \cup {[fn |-> "subtask_keys_from_run_dict", run_dct |-> [pes |-> b],
                subtask_type |-> "pes"] : b \in PesBlocks}

InitParse ==
    /\ arg \in ParseArgs
    /\ ret = Pending
    /\ back = Pending
    /\ fs = EmptyFs
    /\ SetupUnused /\ AdhocUnused

ParseRunDat ==
    /\ arg.fn = "parse_run_dat"
    /\ ret = Pending
    /\ ret' = parse_run_dat(arg.run_dat)
    /\ UNCHANGED <<arg, back, fs, setup_vars, adhoc_vars>>

ParseIndexSeries ==
    /\ arg.fn = "parse_index_series"
    /\ ret = Pending
    /\ ret' = parse_index_series(arg.inp)
    /\ UNCHANGED <<arg, back, fs, setup_vars, adhoc_vars>>

SampleCount ==
    /\ arg.fn = "sample_count_from_inchi"
    /\ ret = Pending
    /\ ret' = Ok(sample_count_from_inchi(arg.chi, arg.a, arg.b, arg.c, arg.d))
    /\ UNCHANGED <<arg, back, fs, setup_vars, adhoc_vars>>

ParseTaskFields ==
    /\ arg.fn = "parse_task_fields"
    /\ ret = Pending
    /\ ret' = parse_task_fields(arg.task_line)
    /\ UNCHANGED <<arg, back, fs, setup_vars, adhoc_vars>>

TaskLines ==
    /\ arg.fn = "task_lines_from_run_dict"
    /\ ret = Pending
    /\ ret' = task_lines_from_run_dict(arg.run_dct, arg.task_type, arg.subtask_type)
    /\ UNCHANGED <<arg, back, fs, setup_vars, adhoc_vars>>

SubtaskKeys ==
    /\ arg.fn = "subtask_keys_from_run_dict"
    /\ ret = Pending
    /\ ret' = subtask_keys_from_run_dict(arg.run_dct, arg.subtask_type)
    /\ UNCHANGED <<arg, back, fs, setup_vars, adhoc_vars>>

NextParse ==
    \/ ParseRunDat \/ ParseIndexSeries \/ SampleCount \/ ParseTaskFields
    \/ TaskLines \/ SubtaskKeys

SpecParse == InitParse /\ [][NextParse]_vars

(* The section of a text that has the key *)
SectionOf(text, k) == CHOOSE i \in 1..Len(text) : text[i].key = k

(* C12: for a run.dat with its six blocks, in whatever order, and for each *)
(* keyword, parse_run_dat returns the text between the line that is the    *)
(* keyword and the line `end keyword`, with the comments removed, also     *)
(* when the keyword is a word of a task line of a block placed earlier.    *)
C12_BlocksWhateverTheOrder ==
    (arg.fn = "parse_run_dat" /\ ret # Pending /\ Len(arg.run_dat) = Len(BlockKeys)) =>
        /\ ret.err = "none"
        /\ \A n \in 1..Len(BlockKeys) :
                LET k == BlockKeys[n]
                    i == SectionOf(arg.run_dat, k)
                IN  /\ block_expression(without_comments(arg.run_dat), k).val =
                            [section |-> i, line |-> 0, word |-> 1, stop |-> i]
                    /\ ret.val[k] = without_comments(arg.run_dat)[i].block

(* The integers that the entries of a text name, in the order of the text *)
Named(entries) == Flatten([i \in 1..Len(entries) |-> ExpandEntry(entries[i])])
FirstAt(s, x) == CHOOSE i \in 1..Len(s) : s[i] = x /\ \A j \in 1..(i - 1) : s[j] # x

(* C13: for a list of integers and start-stop ranges delimited by commas   *)
(* and line breaks, parse_index_series returns every integer that the list *)
(* names, once, in the order of first occurrence.                          *)
C13_FlattenedFirstOccurrence ==
    (arg.fn = "parse_index_series" /\ ret # Pending) =>
        /\ ret.err = "none"
        /\ {ret.val[i] : i \in 1..Len(ret.val)} =
                {Named(arg.inp)[i] : i \in 1..Len(Named(arg.inp))}
        /\ \A i, j \in 1..Len(ret.val) :
                i < j => /\ ret.val[i] # ret.val[j]
                         /\ FirstAt(Named(arg.inp), ret.val[i])
                                < FirstAt(Named(arg.inp), ret.val[j])

(* The same for the lists that have commas only, 2,2,1,3-4,3 among them *)
C13_CommasOnly ==
    (arg.fn = "parse_index_series" /\ ret # Pending
        /\ \A i \in 1..Len(arg.inp) : ~StartsLine(arg.inp[i])) =>
        /\ C13_FlattenedFirstOccurrence
        /\ arg.inp = <<Int1(2), Int1(2), Int1(1), Range(3, 4), Int1(3)>> =>
                ret.val = <<2, 1, 3, 4>>

Sampled == arg.fn = "sample_count_from_inchi" /\ ret # Pending

(* t >= ceil(log_c((d - a) / b)), for b >= 1, c >= 2 and d > a, where the  *)
(* logarithm is defined: for an integer t it says (d - a) / b <= c^t       *)
AtThreshold == 
    /\ arg.b >= 1 /\ arg.c >= 2 /\ arg.d > arg.a
    /\ arg.d - arg.a <= arg.b * Pow(arg.c, arg.chi)

C14_ZeroWitness ==
    Sampled /\ AtThreshold /\ arg.chi = 0 /\ arg.d # 1

C17_FormulaWitness ==
    /\ Sampled
    /\ arg.chi >= 1
    /\ arg.a + arg.b * Pow(arg.c, arg.chi) < arg.d
    /\ ret.val # 1

(* The fields of a line, and the last field of a line that has the key *)
FieldsAt(line) == {i \in 1..Len(line) : IsField(line[i])}
LastOf(line, key) ==
    CHOOSE i \in FieldsAt(line) :
        line[i].key = key /\ \A j \in FieldsAt(line) : line[j].key = key => j <= i

(* C21: the mapping of parse_task_fields has every key=value token of the  *)
(* line, wherever it stands and whatever positional tokens come before it  *)
(* or stand between two fields; a key that occurs more than once has the   *)
(* value of its last occurrence.                                           *)
C21_EveryFieldLastWins ==
    (arg.fn = "parse_task_fields" /\ ret # Pending /\ FieldsAt(arg.task_line) # {}) =>
        /\ ret.err = "none"
        /\ DOMAIN ret.val = {arg.task_line[i].key : i \in FieldsAt(arg.task_line)}
        /\ \A key \in DOMAIN ret.val :
                ret.val[key] = arg.task_line[LastOf(arg.task_line, key)].val

(* The same for the lines whose fields follow one another *)
C21_FieldsInOneRun ==
    (arg.fn = "parse_task_fields" /\ ret # Pending /\ FieldsAt(arg.task_line) # {}
        /\ \A i, j \in FieldsAt(arg.task_line) :
                \A k \in i..j : k \in FieldsAt(arg.task_line)) =>
        C21_EveryFieldLastWins

LinesTaken == arg.fn = "task_lines_from_run_dict" /\ ret # Pending

(* The first word of the line is the tag; the text of the line begins with *)
(* the letters of the tag                                                  *)
HasTag(line, tag) == Len(line) > 0 /\ line[1] = T(tag)
BeginsWith(line, tag) == Len(line) > 0 /\ TokText(line[1])[1] = tag

(* C22, as stated: for els the candidate lines are the lines of the block  *)
(* whose tag is ts when subtask_type is pes, and the lines whose tag is    *)
(* spc for every other subtask_type, in the order of the block; for thermo *)
(* and kin they are all the lines of the block.                            *)
C22_TaggedLines ==
    LinesTaken =>
        /\ ret.err = "none"
        /\ arg.task_type = "els" =>
                ret.val = SelectSeq(arg.run_dct["els"], LAMBDA line :
                            HasTag(line, IF arg.subtask_type = "pes" THEN "ts" ELSE "spc"))
        /\ arg.task_type # "els" => ret.val = arg.run_dct[arg.task_type]

(* C22, amended: for els with subtask_type pes they are the lines whose    *)
(* text begins with ts, with subtask_type spc those whose text begins with *)
(* spc, and any other subtask_type fails the assertion; for thermo and kin *)
(* they are all the lines of the block.                                    *)
C22_LinesBeginningWith ==
    LinesTaken =>
        /\ (arg.task_type = "els" /\ arg.subtask_type \notin {"spc", "pes"}) =>
                ret.err = "AssertionError"
        /\ (arg.task_type = "els" /\ arg.subtask_type \in {"spc", "pes"}) =>
                /\ ret.err = "none"
                /\ ret.val = SelectSeq(arg.run_dct["els"], LAMBDA line :
                        BeginsWith(line, IF arg.subtask_type = "pes" THEN "ts" ELSE "spc"))
        /\ arg.task_type # "els" =>
                ret.err = "none" /\ ret.val = arg.run_dct[arg.task_type]

C22_Witness ==
    /\ LinesTaken
    /\ arg.task_type = "els" /\ arg.subtask_type = "pes"
    /\ arg.run_dct["els"] = <<spc_init, ts_find, ts_word>>
    /\ ret.val = <<ts_find, ts_word>>

KeysTaken == arg.fn = "subtask_keys_from_run_dict" /\ ret # Pending

(* The pairs (pes index, channel index) that the lines of a pes block name, *)
(* line after line                                                         *)
NamedPairs(block) ==
    Flatten([i \in 1..Len(block) |->
        [j \in 1..Len(Named(block[i].channels)) |->
            PyTuple(<<PyInt(block[i].pes), PyInt(Named(block[i].channels)[j])>>)]])

(* C23: for the subtask type pes the keys are the pairs (pes index,        *)
(* channel index) that the lines of the pes block name, each pair once, in *)
(* the order of first occurrence over the lines, also when a pes index is  *)
(* on several lines.                                                       *)
C23_PairsOfFirstOccurrence ==
    KeysTaken =>
        \A pairs \in {NamedPairs(arg.run_dct.pes)} :
            /\ ret.err = "none"
            /\ {ret.val[i] : i \in 1..Len(ret.val)} = {pairs[i] : i \in 1..Len(pairs)}
            /\ \A i, j \in 1..Len(ret.val) :
                    i < j => /\ ret.val[i] # ret.val[j]
                             /\ FirstAt(pairs, ret.val[i]) < FirstAt(pairs, ret.val[j])

C23_Witness ==
    /\ KeysTaken
    /\ arg.run_dct.pes = <<[pes |-> 1, channels |-> <<Int1(2), Int1(1)>>],
                            [pes |-> 2, channels |-> <<Int1(1)>>],
                            [pes |-> 1, channels |-> <<Range(1, 2)>>]>>
    /\ ret.val = <<PyTuple(<<PyInt(1), PyInt(2)>>), PyTuple(<<PyInt(1), PyInt(1)>>),
                    PyTuple(<<PyInt(2), PyInt(1)>>)>>

====
